---------------------------- MODULE Spec2Model ----------------------------
(***************************************************************************)
(* Model of the Magento -> Veza OAA connectors:                            *)
(*   - decode_graphql_id / _encode_id (base64 ID codec),                   *)
(*   - the GraphQL EntityExtractor (on-prem-graphql),                      *)
(*   - the REST EntityExtractor (cloud-rest),                              *)
(*   - the role-gap handler, the relationship builders, the orchestrator,  *)
(*   - ImsAuthClient and CloudRESTClient (cloud-rest),                     *)
(*   - execute_veza_push with preflight and the provider registry,         *)
(*   - run.py main() with validate_config and the output retention.        *)
(* Python strings that the code transforms (IDs, emails) are sequences of  *)
(* character codes; strings the code only copies or compares with          *)
(* literals are TLA+ strings.  Python None is the empty option <<>>, an    *)
(* integer n is <<n>>.                                                     *)
(***************************************************************************)
EXTENDS Integers, Sequences, FiniteSets, TLC

VARIABLES
    \* ---- ID codec (decode_graphql_id, _encode_id) ----
    dec_pc,        \* "idle" | "number" | "encoded" | "raw" | "done"
    dec_n,         \* the numeric ID handed to _encode_id (<<>> when none)
    dec_input,     \* the string handed to decode_graphql_id
    dec_output,    \* what decode_graphql_id returned
    \* ---- GraphQL EntityExtractor.extract ----
    gql_pc,        \* "idle" | "loop" | "done"
    company_data,  \* the "company" object of the response (without items)
    structure_items, \* the items iterated so far, in input order
    company,       \* _extract_company's result
    admin_email,   \* company_admin.email
    users, teams, roles, hierarchy, structure_map,
    result,        \* extract()'s return value (<<>> until returned)
    \* ---- REST EntityExtractor.extract ----
    rest_pc,       \* "idle" | "start" | "flat" | "walked" | "users" | "teams" | "done"
    current_user,  \* GET /V1/customers/me
    rest_company,  \* GET /V1/company/{id}
    rest_roles,    \* GET /V1/company/role
    rest_hierarchy, \* GET /V1/hierarchy/{companyId}: the root node of the tree
    team_details,  \* team_id -> GET /V1/team/{id}
    flat_nodes, rest_users, rest_teams, role_entities,
    rest_result,   \* extract()'s return value (<<>> until returned)
    \* ---- one customer through both extractors' user builders ----
    st_entity,     \* a GraphQL Customer entity
    st_admin_email, \* the GraphQL company_admin.email
    st_customer,   \* a REST customer profile
    st_super_user_id, \* the REST company's super_user_id
    st_gql_user,   \* _extract_user's result (<<>> until called)
    st_rest_user,  \* _extract_user_from_customer's result (<<>> until called)
    \* ---- RoleGapHandler ----
    rgh_pc,        \* "idle" | "start" | "ready" | "failed" | "done"
    rgh_strategy_arg, \* the strategy handed to RoleGapHandler()
    rgh_csv,       \* the file at csv_path: missing, unreadable, or readable with rows
    rgh_handler,   \* the constructed handler (<<>> until constructed)
    rgh_raised,    \* the exception __init__ raised (<<>> when none)
    rgh_users_arg, \* the users as they were handed to resolve()
    rgh_users,     \* the users list, updated in place by resolve()
    rgh_roles,     \* the roles handed to resolve()
    \* ---- RelationshipBuilder._build_reports_to ----
    rel_pc,        \* "idle" | "graphql" | "rest" | "done"
    rel_hierarchy, \* entities["hierarchy"]: the resolved links
    rel_i,         \* how many links the loop has gone through
    local_users,   \* app.local_users: email -> the user's reports_to property
    \* ---- GraphQLOrchestrator.run ----
    orc_pc,        \* "idle" | "auth" | "query" | "supplement" | "build" | "save" | "returned"
    use_rest_supplement, \* self.use_rest_supplement
    orc_company_id, \* the decoded company id of graphql_data ("" until queried)
    orc_rest_roles, \* rest_roles: None, or Some(the roles fetched via REST)
    orc_warnings,  \* the warnings printed so far
    role_permissions, \* the role -> permission links of the application
    add_failed,    \* the add_permissions calls that raised: (role index, permission index)
    results,       \* run()'s results: success, error
    \* ---- ImsAuthClient ----
    ims_pc,        \* "idle" | "ready" | "requesting" (inside requests.post)
    now,           \* time.time(), in seconds
    ims_token,     \* self._token (None until acquired)
    ims_expires_at, \* self._expires_at
    ims_response,  \* the last answer of the IMS token endpoint (<<>> when none)
    ims_result,    \* what the last get_token call returned or raised (<<>> when none)
    ims_calls,     \* how many times get_token was called
    http_posts,    \* how many token requests were sent (requests.post calls)
    api_status,    \* the status of the last Commerce API call made with the token
    \* ---- execute_veza_push, PreflightChecker, ProviderRegistry, Veza ----
    push_pc,       \* "idle" | "preflight" | "push" | "push_name" | "save" | "returned" | "raised"
    provider_name, \* PROVIDER_NAME
    provider_prefix, \* PROVIDER_PREFIX
    veza_url,      \* VEZA_URL
    veza_api_key,  \* VEZA_API_KEY
    veza_providers, \* the providers Veza holds: name, id, data sources
    veza_next_id,  \* the next ID Veza hands out
    registry_file, \* oaa_provider_ids.json: missing, corrupt, or ok with its providers
    preflight,     \* the PreflightResult of this run's check
    push_calls,    \* the calls execute_veza_push made in this run, in order
    veza_api,      \* the Veza API calls made in this run, in order
    registry_saved, \* whether this run wrote the registry file
    run_no,        \* the number of this run
    prev_run,      \* the run before: whether it pushed, whether it saved, with which ID
    \* ---- run.py main() with the orchestrator's validate_config and run ----
    main_pc,       \* "idle" | "init" | "validate" | "cleanup" | "pipeline" | "mkdir" | "save" | "push" | "pushing" | "finish" | "summary" | "exited"
    cfg,           \* the connector, its command line and its environment
    dry_run,       \* orchestrator.dry_run (None: the orchestrator has no such attribute)
    clock,         \* datetime.now()
    base_dir,      \* the directories and files under the output base, registry file aside
    listing_before, \* base_dir as the process found it
    current_dir,   \* output_manager.current_dir
    config_valid,  \* what validate_config returned (None until called)
    steps_done,    \* the pipeline steps that completed, in order
    main_results,  \* results of orchestrator.run(): success, error
    exit_code,     \* the exit code of the process (None while it runs)
    \* ---- CloudRESTClient (backlog/cloud-rest) ----
    client_pc,     \* "idle" | "ready" | "auth" (inside self._auth.get_token())
    client_token,  \* CloudRESTClient._token (None until authenticate succeeded)
    client_calls,  \* how many API methods were called
    sent           \* the last API request sent: its bearer token, the time, the status (<<>> when none)

decVars == <<dec_pc, dec_n, dec_input, dec_output>>
gqlVars == <<gql_pc, company_data, structure_items, company, admin_email,
             users, teams, roles, hierarchy, structure_map, result>>
restVars == <<rest_pc, current_user, rest_company, rest_roles, rest_hierarchy,
              team_details, flat_nodes, rest_users, rest_teams, role_entities,
              rest_result>>
stVars == <<st_entity, st_admin_email, st_customer, st_super_user_id,
            st_gql_user, st_rest_user>>
rghVars == <<rgh_pc, rgh_strategy_arg, rgh_csv, rgh_handler, rgh_raised,
             rgh_users_arg, rgh_users, rgh_roles>>
relVars == <<rel_pc, rel_hierarchy, rel_i, local_users>>
orcVars == <<orc_pc, use_rest_supplement, orc_company_id, orc_rest_roles,
             orc_warnings, role_permissions, add_failed, results>>
imsVars == <<ims_pc, now, ims_token, ims_expires_at, ims_response, ims_result,
             ims_calls, http_posts, api_status>>
pushVars == <<push_pc, provider_name, provider_prefix, veza_url, veza_api_key,
              veza_providers, veza_next_id, registry_file, preflight, push_calls,
              veza_api, registry_saved, run_no, prev_run>>
mainVars == <<main_pc, cfg, dry_run, clock, base_dir, listing_before, current_dir,
              config_valid, steps_done, main_results, exit_code>>
clientVars == <<client_pc, client_token, client_calls, sent>>
vars == <<decVars, gqlVars, restVars, stVars, rghVars, relVars, orcVars, imsVars, pushVars, mainVars, clientVars>>

-----------------------------------------------------------------------------
(* Bounds of the model                                                     *)
MaxLen == 4        \* longest raw string handed to decode_graphql_id
MaxId == 130       \* largest numeric ID handed to _encode_id
MaxItems == 2      \* most structure.items of one GraphQL response
MaxNodes == 3      \* most nodes of one REST hierarchy tree
MaxUsers == 2      \* most users handed to RoleGapHandler.resolve
MaxLinks == 2      \* most hierarchy links handed to _build_reports_to
MaxRestRoles == 2  \* most roles of one REST role response
MaxTicks == 5      \* how many times the clock advances (by 30 seconds)
MaxCalls == 3      \* most get_token calls of one client
MaxRuns == 2       \* how many consecutive runs of the connector

-----------------------------------------------------------------------------
(* Python values                                                           *)
None == <<>>
Some(x) == <<x>>
IsNone(o) == o = <<>>
\* Python truthiness of an optional integer: None and 0 are falsy.
Truthy(o) == o # <<>> /\ o[1] # 0

\* str(n) for n >= 0: the decimal digits as character codes ("0" is 48).
RECURSIVE str(_)
str(n) == IF n < 10 THEN <<48 + n>> ELSE str(n \div 10) \o <<48 + (n % 10)>>

\* str.lower() on ASCII text: "A".."Z" (65..90) map to "a".."z".
lower(s) == [i \in 1..Len(s) |-> IF s[i] >= 65 /\ s[i] <= 90 THEN s[i] + 32 ELSE s[i]]

-----------------------------------------------------------------------------
(* base64 (binascii.b2a_base64 / a2b_base64, non-strict) and UTF-8         *)

\* The value of a base64 alphabet character, 64 for any other character.
table_a2b(c) ==
    IF c >= 65 /\ c <= 90 THEN c - 65
    ELSE IF c >= 97 /\ c <= 122 THEN c - 71
    ELSE IF c >= 48 /\ c <= 57 THEN c + 4
    ELSE IF c = 43 THEN 62
    ELSE IF c = 47 THEN 63
    ELSE 64

\* The alphabet character of a 6-bit value.
table_b2a(v) ==
    IF v < 26 THEN v + 65
    ELSE IF v < 52 THEN v + 71
    ELSE IF v < 62 THEN v - 4
    ELSE IF v = 62 THEN 43
    ELSE 47

\* base64.b64encode: three bytes become four characters, "=" (61) pads.
RECURSIVE b64encode(_)
b64encode(b) ==
    IF Len(b) = 0 THEN <<>>
    ELSE IF Len(b) = 1 THEN
        <<table_b2a(b[1] \div 4), table_b2a((b[1] % 4) * 16), 61, 61>>
    ELSE IF Len(b) = 2 THEN
        <<table_b2a(b[1] \div 4),
          table_b2a((b[1] % 4) * 16 + b[2] \div 16),
          table_b2a((b[2] % 16) * 4), 61>>
    ELSE
        <<table_b2a(b[1] \div 4),
          table_b2a((b[1] % 4) * 16 + b[2] \div 16),
          table_b2a((b[2] % 16) * 4 + b[3] \div 64),
          table_b2a(b[3] % 64)>> \o b64encode(SubSeq(b, 4, Len(b)))

\* binascii.a2b_base64 without strict mode, from character i on.  Characters
\* outside the alphabet are skipped; padding that completes a quad ends the
\* decoding (what follows is ignored); leftover characters are an error.
RECURSIVE a2b_base64(_, _, _, _, _, _)
a2b_base64(s, i, quad_pos, leftchar, pads, out) ==
    IF i > Len(s) THEN
        IF quad_pos # 0 THEN [ok |-> FALSE, bytes |-> <<>>]
        ELSE [ok |-> TRUE, bytes |-> out]
    ELSE IF s[i] = 61 THEN
        IF quad_pos >= 2 /\ quad_pos + pads + 1 >= 4
        THEN [ok |-> TRUE, bytes |-> out]
        ELSE a2b_base64(s, i + 1, quad_pos, leftchar,
                        IF quad_pos >= 2 THEN pads + 1 ELSE pads, out)
    ELSE IF table_a2b(s[i]) >= 64 THEN
        a2b_base64(s, i + 1, quad_pos, leftchar, pads, out)
    ELSE LET this_ch == table_a2b(s[i]) IN
        CASE quad_pos = 0 -> a2b_base64(s, i + 1, 1, this_ch, 0, out)
          [] quad_pos = 1 -> a2b_base64(s, i + 1, 2, this_ch % 16, 0,
                                 Append(out, leftchar * 4 + this_ch \div 16))
          [] quad_pos = 2 -> a2b_base64(s, i + 1, 3, this_ch % 4, 0,
                                 Append(out, leftchar * 16 + this_ch \div 4))
          [] OTHER        -> a2b_base64(s, i + 1, 0, 0, 0,
                                 Append(out, leftchar * 64 + this_ch))

\* Mutant: a decoder that rejects every padded input.
b64decode_rejects_padding(s) ==
    IF \E i \in 1..Len(s) : s[i] > 127 \/ s[i] = 61 THEN [ok |-> FALSE, bytes |-> <<>>]
    ELSE a2b_base64(s, 1, 0, 0, 0, <<>>)

\* base64.b64decode(s) for a str s: s.encode("ascii") fails on a character
\* above 127, then a2b_base64.
b64decode(s) ==
    IF \E i \in 1..Len(s) : s[i] > 127 THEN [ok |-> FALSE, bytes |-> <<>>]
    ELSE a2b_base64(s, 1, 0, 0, 0, <<>>)

IsCont(b, i) == i <= Len(b) /\ b[i] >= 128 /\ b[i] <= 191

\* bytes.decode("utf-8") from byte i on: the code points, or an error on an
\* invalid, overlong, surrogate or truncated sequence.
RECURSIVE utf8_decode(_, _, _)
utf8_decode(b, i, out) ==
    IF i > Len(b) THEN [ok |-> TRUE, text |-> out]
    ELSE IF b[i] < 128 THEN utf8_decode(b, i + 1, Append(out, b[i]))
    ELSE IF b[i] >= 194 /\ b[i] <= 223 THEN
        IF IsCont(b, i + 1)
        THEN utf8_decode(b, i + 2, Append(out, (b[i] - 192) * 64 + (b[i+1] - 128)))
        ELSE [ok |-> FALSE, text |-> <<>>]
    ELSE IF b[i] >= 224 /\ b[i] <= 239 THEN
        IF /\ IsCont(b, i + 1) /\ IsCont(b, i + 2)
           /\ (b[i] = 224 => b[i+1] >= 160)
           /\ (b[i] = 237 => b[i+1] <= 159)
        THEN utf8_decode(b, i + 3, Append(out,
                 (b[i] - 224) * 4096 + (b[i+1] - 128) * 64 + (b[i+2] - 128)))
        ELSE [ok |-> FALSE, text |-> <<>>]
    ELSE IF b[i] >= 240 /\ b[i] <= 244 THEN
        IF /\ IsCont(b, i + 1) /\ IsCont(b, i + 2) /\ IsCont(b, i + 3)
           /\ (b[i] = 240 => b[i+1] >= 144)
           /\ (b[i] = 244 => b[i+1] <= 143)
        THEN utf8_decode(b, i + 4, Append(out,
                 (b[i] - 240) * 262144 + (b[i+1] - 128) * 4096
                 + (b[i+2] - 128) * 64 + (b[i+3] - 128)))
        ELSE [ok |-> FALSE, text |-> <<>>]
    ELSE [ok |-> FALSE, text |-> <<>>]

\* The body of decode_graphql_id's try block,
\* base64.b64decode(encoded_id).decode("utf-8"): the text, or an exception.
try_decode(encoded_id) ==
    LET raw == b64decode(encoded_id) IN
    IF ~raw.ok THEN [raised |-> TRUE, value |-> <<>>]
    ELSE LET txt == utf8_decode(raw.bytes, 1, <<>>) IN
         IF ~txt.ok THEN [raised |-> TRUE, value |-> <<>>]
         ELSE [raised |-> FALSE, value |-> txt.text]

\* Mutant: no "except Exception", the exception reaches the caller.
call_decode_graphql_id_no_except(encoded_id) == try_decode(encoded_id)

\* decode_graphql_id as a call: "except Exception: return encoded_id".
call_decode_graphql_id(encoded_id) ==
    IF try_decode(encoded_id).raised
    THEN [raised |-> FALSE, value |-> encoded_id]
    ELSE try_decode(encoded_id)

\* decode_graphql_id's return value, as the extractor uses it.
decode_graphql_id(encoded_id) == call_decode_graphql_id(encoded_id).value

\* _encode_id: base64 of the ASCII bytes of str(numeric_id).
encode_id(numeric_id) == b64encode(str(numeric_id))

-----------------------------------------------------------------------------
(* The ID codec as a state machine: an ID is encoded and decoded, or a raw *)
(* string is decoded.                                                      *)

\* Characters of the raw strings: "M" "Q" "w" "6" "k" (alphabet), "=" (pad),
\* "!" (outside the alphabet), e-acute (not ASCII).
RawAlphabet == {77, 81, 119, 54, 107, 61, 33, 233}
RawStrings == UNION {[1..n -> RawAlphabet] : n \in 0..MaxLen}

decIdle == dec_pc = "idle" /\ dec_n = None /\ dec_input = <<>> /\ dec_output = <<>>

decInit ==
    /\ dec_output = <<>>
    /\ \/ dec_pc = "number" /\ dec_n \in {Some(n) : n \in 0..MaxId} /\ dec_input = <<>>
       \/ dec_pc = "raw" /\ dec_n = None /\ dec_input \in RawStrings

\* _encode_id(numeric_id)
EncodeId ==
    /\ dec_pc = "number"
    /\ dec_input' = encode_id(dec_n[1])
    /\ dec_pc' = "encoded"
    /\ UNCHANGED <<dec_n, dec_output>>

\* decode_graphql_id(encoded_id)
DecodeId ==
    /\ dec_pc \in {"encoded", "raw"}
    /\ dec_output' = call_decode_graphql_id(dec_input)
    /\ dec_pc' = "done"
    /\ UNCHANGED <<dec_n, dec_input>>

-----------------------------------------------------------------------------
(* GraphQL EntityExtractor (connectors/on-prem-graphql)                    *)

\* Text literals as character codes.
Txt_a_x == <<97, 64, 120>>                      \* "a@x"
Txt_A_x == <<65, 64, 120>>                      \* "A@x"
Txt_A_X == <<65, 64, 88>>                       \* "A@X"
Txt_b_x == <<98, 64, 120>>                      \* "b@x"
Txt_admin_acme == <<97, 100, 109, 105, 110, 64, 97, 99, 109, 101, 46, 99, 111, 109>>
                                                \* "admin@acme.com"
Txt_MQ == <<77, 81, 61, 61>>                    \* "MQ==" (base64 of "1")
Txt_Mg == <<77, 103, 61, 61>>                   \* "Mg==" (base64 of "2")
Txt_1 == <<49>>                                 \* "1" (not base64)

\* The "company" objects of the responses drawn: id and company_admin.email.
CompanyInputs ==
    { [id |-> Txt_MQ, name |-> "Acme Corp", company_admin_email |-> Txt_admin_acme],
      [id |-> Txt_MQ, name |-> "Acme Corp", company_admin_email |-> <<>>],
      [id |-> Txt_1,  name |-> "Acme Corp", company_admin_email |-> Txt_A_X] }

\* entity.role / entity.team values: absent, or an object with a raw id.
RoleInputs ==
    { Some([id |-> Txt_MQ, name |-> "Company Administrator"]),
      Some([id |-> Txt_1,  name |-> "Default User"]),
      Some([id |-> Txt_Mg, name |-> "Default User"]),
      Some([id |-> <<>>,   name |-> "Purchaser"]) }

\* A Customer entity: one field varies at a time around a plain customer.
CustomerEntities ==
    {[typename |-> "Customer", email |-> e, firstname |-> "F", lastname |-> "L",
      status |-> "", role |-> None, team |-> None, id |-> <<>>, name |-> ""]
        : e \in {Txt_a_x, Txt_A_x, Txt_admin_acme}}
    \cup
    {[typename |-> "Customer", email |-> Txt_b_x, firstname |-> "F", lastname |-> "L",
      status |-> st, role |-> None, team |-> None, id |-> <<>>, name |-> ""]
        : st \in {"ACTIVE", "INACTIVE"}}
    \cup
    {[typename |-> "Customer", email |-> Txt_a_x, firstname |-> "F", lastname |-> "L",
      status |-> "", role |-> r, team |-> Some([id |-> Txt_MQ]), id |-> <<>>, name |-> ""]
        : r \in RoleInputs}

TeamEntity ==
    [typename |-> "CompanyTeam", email |-> <<>>, firstname |-> "", lastname |-> "",
     status |-> "", role |-> None, team |-> None, id |-> Txt_MQ, name |-> "Engineering"]

\* An entity of a type the extractor does not know (or no entity at all).
OtherEntity ==
    [typename |-> "", email |-> <<>>, firstname |-> "", lastname |-> "",
     status |-> "", role |-> None, team |-> None, id |-> <<>>, name |-> ""]

\* (id, parent_id) of an item: a root, a child of s1, a child of s2, and an
\* item without id.  "" stands for an absent or empty field.
Positions == {<<"s1", "">>, <<"s2", "s1">>, <<"s1", "s2">>, <<"", "s1">>}

ItemInputs ==
    {[id |-> p[1], parent_id |-> p[2], entity |-> e]
        : p \in Positions, e \in CustomerEntities \cup {TeamEntity, OtherEntity}}

_extract_company(cd) ==
    [id |-> decode_graphql_id(cd.id),
     name |-> cd.name,
     admin_email |-> cd.company_admin_email,
     graphql_id |-> cd.id]

\* Mutant: the admin email is compared case-sensitively.
_extract_user_case_sensitive(entity, company_id, adm_email) ==
    LET role_data == entity.role
        has_role == role_data # None /\ role_data[1].id # <<>>
    IN [email |-> entity.email,
        firstname |-> entity.firstname,
        lastname |-> entity.lastname,
        is_active |-> IF entity.status # "" THEN entity.status = "ACTIVE" ELSE TRUE,
        status_raw |-> entity.status,
        is_company_admin |-> IF adm_email # <<>> THEN entity.email = adm_email ELSE FALSE,
        company_id |-> company_id,
        team_id |-> IF entity.team # None /\ entity.team[1].id # <<>>
                    THEN Some(decode_graphql_id(entity.team[1].id)) ELSE None,
        role_id |-> IF has_role THEN Some(decode_graphql_id(role_data[1].id)) ELSE None,
        role_name |-> IF has_role THEN Some(role_data[1].name) ELSE None]

_extract_user(entity, company_id, adm_email) ==
    LET email == entity.email
        status == entity.status
        team_data == entity.team
        team_id == IF team_data # None /\ team_data[1].id # <<>>
                   THEN Some(decode_graphql_id(team_data[1].id)) ELSE None
        role_data == entity.role
        has_role == role_data # None /\ role_data[1].id # <<>>
    IN [email |-> email,
        firstname |-> entity.firstname,
        lastname |-> entity.lastname,
        is_active |-> IF status # "" THEN status = "ACTIVE" ELSE TRUE,
        status_raw |-> status,
        is_company_admin |-> IF adm_email # <<>>
                             THEN lower(email) = lower(adm_email) ELSE FALSE,
        company_id |-> company_id,
        team_id |-> team_id,
        role_id |-> IF has_role THEN Some(decode_graphql_id(role_data[1].id)) ELSE None,
        role_name |-> IF has_role THEN Some(role_data[1].name) ELSE None]

_extract_team(entity, company_id) ==
    [id |-> decode_graphql_id(entity.id),
     name |-> entity.name,
     company_id |-> company_id,
     graphql_id |-> entity.id]

\* dict assignment m[k] = v
DictSet(m, k, v) == [x \in DOMAIN m \cup {k} |-> IF x = k THEN v ELSE m[x]]

\* Mutant: "roles[role_id] = {...}" without the "not in roles" test, so the
\* last occurrence overwrites the entry.
AddRole_overwrite(rs, role_data, company_id) ==
    LET role_id == decode_graphql_id(role_data.id)
        entry == [id |-> role_id, name |-> role_data.name,
                  company_id |-> company_id, graphql_id |-> role_data.id]
    IN IF \E i \in 1..Len(rs) : rs[i].id = role_id
       THEN [i \in 1..Len(rs) |-> IF rs[i].id = role_id THEN entry ELSE rs[i]]
       ELSE Append(rs, entry)

\* "if role_id not in roles: roles[role_id] = {...}"; roles keeps dict order.
AddRole(rs, role_data, company_id) ==
    LET role_id == decode_graphql_id(role_data.id) IN
    IF \E i \in 1..Len(rs) : rs[i].id = role_id THEN rs
    ELSE Append(rs, [id |-> role_id, name |-> role_data.name,
                     company_id |-> company_id, graphql_id |-> role_data.id])

\* Mutant: "break" instead of "continue" at an unresolvable link.
RECURSIVE _resolve_hierarchy_break(_, _)
_resolve_hierarchy_break(h, smap) ==
    IF h = <<>> THEN <<>>
    ELSE LET link == Head(h)
             child_id == link.child_structure_id
             parent_id == link.parent_structure_id
         IN IF child_id \notin DOMAIN smap \/ parent_id \notin DOMAIN smap
            THEN <<>>
            ELSE <<[child_type |-> smap[child_id].type,
                    child_entity |-> smap[child_id].entity,
                    parent_type |-> smap[parent_id].type,
                    parent_entity |-> smap[parent_id].entity]>>
                 \o _resolve_hierarchy_break(Tail(h), smap)

RECURSIVE _resolve_hierarchy(_, _)
_resolve_hierarchy(h, smap) ==
    IF h = <<>> THEN <<>>
    ELSE LET link == Head(h)
             child_id == link.child_structure_id
             parent_id == link.parent_structure_id
         IN IF child_id \notin DOMAIN smap \/ parent_id \notin DOMAIN smap
            THEN _resolve_hierarchy(Tail(h), smap)
            ELSE <<[child_type |-> smap[child_id].type,
                    child_entity |-> smap[child_id].entity,
                    parent_type |-> smap[parent_id].type,
                    parent_entity |-> smap[parent_id].entity]>>
                 \o _resolve_hierarchy(Tail(h), smap)

gqlIdle ==
    /\ gql_pc = "idle" /\ company_data = <<>> /\ structure_items = <<>>
    /\ company = <<>> /\ admin_email = <<>> /\ users = <<>> /\ teams = <<>>
    /\ roles = <<>> /\ hierarchy = <<>> /\ structure_map = <<>> /\ result = <<>>

gqlInit ==
    /\ gql_pc = "start" /\ company_data \in CompanyInputs /\ structure_items = <<>>
    /\ company = <<>> /\ admin_email = <<>> /\ users = <<>> /\ teams = <<>>
    /\ roles = <<>> /\ hierarchy = <<>> /\ structure_map = <<>> /\ result = <<>>

\* extract(), up to the loop: the company and the admin email.
GqlBegin ==
    /\ gql_pc = "start"
    /\ company' = _extract_company(company_data)
    /\ admin_email' = company_data.company_admin_email
    /\ gql_pc' = "loop"
    /\ UNCHANGED <<company_data, structure_items, users, teams, roles,
                   hierarchy, structure_map, result>>

\* One iteration of "for item in structure_items".
GqlExtractItem(item) ==
    /\ gql_pc = "loop"
    /\ Len(structure_items) < MaxItems
    /\ structure_items' = Append(structure_items, item)
    /\ LET structure_id == item.id
           parent_id == item.parent_id
           entity == item.entity
           entity_type == entity.typename
           user == _extract_user(entity, company.id, admin_email)
           team == _extract_team(entity, company.id)
       IN /\ users' = IF entity_type = "Customer" THEN Append(users, user) ELSE users
          /\ teams' = IF entity_type = "CompanyTeam" THEN Append(teams, team) ELSE teams
          /\ structure_map' =
                IF entity_type = "Customer"
                THEN DictSet(structure_map, structure_id, [type |-> "Customer", entity |-> user])
                ELSE IF entity_type = "CompanyTeam"
                THEN DictSet(structure_map, structure_id, [type |-> "CompanyTeam", entity |-> team])
                ELSE structure_map
          /\ roles' =
                IF /\ entity_type = "Customer"
                   /\ entity.role # None /\ entity.role[1].id # <<>>
                THEN AddRole(roles, entity.role[1], company.id)
                ELSE roles
          /\ hierarchy' =
                IF parent_id # ""
                THEN Append(hierarchy, [child_structure_id |-> structure_id,
                                        parent_structure_id |-> parent_id])
                ELSE hierarchy
    /\ UNCHANGED <<gql_pc, company_data, company, admin_email, result>>

\* After the loop: resolve the hierarchy and return the result.
GqlFinish ==
    /\ gql_pc = "loop"
    /\ result' = Some([company |-> company,
                       users |-> users,
                       teams |-> teams,
                       roles |-> roles,
                       hierarchy |-> _resolve_hierarchy(hierarchy, structure_map),
                       admin_email |-> admin_email])
    /\ gql_pc' = "done"
    /\ UNCHANGED <<company_data, structure_items, company, admin_email, users,
                   teams, roles, hierarchy, structure_map>>

-----------------------------------------------------------------------------
(* REST EntityExtractor (backlog/cloud-rest)                               *)

Txt_me_x == <<109, 101, 64, 120>>                          \* "me@x"
Txt_customer_ == <<99, 117, 115, 116, 111, 109, 101, 114, 95>>   \* "customer_"
Txt_at_unknown == <<64, 117, 110, 107, 110, 111, 119, 110>>      \* "@unknown"
Txt_customer_11_unknown == Txt_customer_ \o <<49, 49>> \o Txt_at_unknown

\* (entity_id, entity_type) of a hierarchy node: customers, a team and the
\* company node that roots the hierarchy response.
NodeAttrs ==
    { <<Some(10), "customer">>, <<Some(11), "customer">>, <<Some(11), "CUSTOMER">>,
      <<None, "customer">>, <<Some(1), "team">>, <<Some(2), "company">> }

\* The ordered trees of n nodes and the ordered forests of n nodes, every
\* node labelled from NodeAttrs (structure ids are assigned by Numbered).
RECURSIVE TreesOf(_), ForestsOf(_)
TreesOf(n) ==
    {[attrs |-> a, children |-> f] : a \in NodeAttrs, f \in ForestsOf(n - 1)}
ForestsOf(n) ==
    IF n = 0 THEN {<<>>}
    ELSE UNION {{<<t>> \o f : t \in TreesOf(k), f \in ForestsOf(n - k)} : k \in 1..n}

RECURSIVE Size(_), SizeAll(_)
Size(t) == 1 + SizeAll(t.children)
SizeAll(f) == IF f = <<>> THEN 0 ELSE Size(Head(f)) + SizeAll(Tail(f))

\* The API's node for tree t: structure ids number the nodes in pre-order
\* from sid on, structure_parent_id is the parent's structure id (0 at the
\* root).
RECURSIVE Numbered(_, _, _), NumberedAll(_, _, _)
Numbered(t, sid, parent_sid) ==
    [structure_id |-> Some(sid),
     entity_id |-> t.attrs[1],
     entity_type |-> t.attrs[2],
     structure_parent_id |-> Some(parent_sid),
     children |-> NumberedAll(t.children, sid + 1, sid)]
NumberedAll(f, sid, parent_sid) ==
    IF f = <<>> THEN <<>>
    ELSE <<Numbered(Head(f), sid, parent_sid)>>
         \o NumberedAll(Tail(f), sid + Size(Head(f)), parent_sid)

\* The hierarchy responses drawn: every tree of at most MaxNodes nodes whose
\* root has structure_parent_id 0, every smaller tree whose root names a
\* parent structure (9) that is not part of the response, and the empty
\* response ({} or None).
HierarchyInputs ==
    UNION {{Numbered(t, 1, 0) : t \in TreesOf(n)} : n \in 1..MaxNodes}
    \cup UNION {{Numbered(t, 1, 9) : t \in TreesOf(n)} : n \in 1..(MaxNodes - 1)}
    \cup {<<>>}

\* The /customers/me responses drawn: one field varies at a time around the
\* caller 10 "me@x" whose company_attributes.status is 1.
CurrentUserInputs ==
    {[id |-> i, email |-> Txt_me_x, firstname |-> "Me", lastname |-> "Myself",
      job_title |-> "CEO", telephone |-> "555-0001",
      status |-> Some(1)] : i \in {Some(10), Some(12), None}}
    \cup
    {[id |-> Some(10), email |-> Txt_me_x, firstname |-> "Me", lastname |-> "Myself",
      job_title |-> "CEO", telephone |-> "555-0001",
      status |-> st] : st \in {None, Some(0)}}
    \cup
    {[id |-> i, email |-> e, firstname |-> "Me", lastname |-> "Myself",
      job_title |-> "CEO", telephone |-> "555-0001",
      status |-> Some(1)] : i \in {Some(10), Some(12)}, e \in {<<>>, Txt_customer_11_unknown}}

CompanyRestInputs ==
    {[id |-> Some(1), company_name |-> "Acme Corp", super_user_id |-> su]
        : su \in {None, Some(10), Some(11)}}

RolesRestInput ==
    << [id |-> Some(1), role_name |-> "Company Administrator",
        permissions |-> <<[resource_id |-> "Magento_Company::index", permission |-> "allow"]>>],
       [id |-> Some(2), role_name |-> "Default User",
        permissions |-> <<[resource_id |-> "Magento_Company::index", permission |-> "deny"]>>] >>

\* team_details: team 1 was fetched, no other team.
Txt_Eng == <<69, 110, 103>>                                \* "Eng"
Txt_Team_ == <<84, 101, 97, 109, 32>>                      \* "Team "
TeamDetailsInput == [t \in {1} |-> [name |-> Txt_Eng, description |-> "Engineering"]]

\* str(x) if x else "" for an optional integer x.
StrOrEmpty(o) == IF Truthy(o) THEN str(o[1]) ELSE <<>>

rest_extract_company(c) ==
    [id |-> StrOrEmpty(c.id),
     name |-> c.company_name,
     super_user_id |-> c.super_user_id,
     admin_email |-> <<>>]

\* Mutant: company_attrs.get("status", 1) == 1, an absent status is active.
_extract_user_from_customer_default_active(customer, company_id, super_user_id) ==
    [email |-> customer.email,
     firstname |-> customer.firstname,
     lastname |-> customer.lastname,
     job_title |-> customer.job_title,
     telephone |-> customer.telephone,
     is_active |-> customer.status = Some(1) \/ customer.status = None,
     is_company_admin |-> IF Truthy(super_user_id)
                          THEN customer.id = super_user_id ELSE FALSE,
     company_id |-> company_id,
     team_id |-> None,
     role_id |-> None,
     role_name |-> None,
     magento_customer_id |-> StrOrEmpty(customer.id)]

_extract_user_from_customer(customer, company_id, super_user_id) ==
    [email |-> customer.email,
     firstname |-> customer.firstname,
     lastname |-> customer.lastname,
     job_title |-> customer.job_title,
     telephone |-> customer.telephone,
     is_active |-> customer.status = Some(1),
     is_company_admin |-> IF Truthy(super_user_id)
                          THEN customer.id = super_user_id ELSE FALSE,
     company_id |-> company_id,
     team_id |-> None,
     role_id |-> None,
     role_name |-> None,
     magento_customer_id |-> StrOrEmpty(customer.id)]

\* Mutant: the placeholder's email is built from the structure id.
_extract_user_from_hierarchy_by_structure(node, company_id, super_user_id, cu) ==
    LET entity_id == node.entity_id IN
    IF ~Truthy(entity_id) THEN None
    ELSE IF cu.id = entity_id THEN
        Some([k \in DOMAIN _extract_user_from_customer(cu, company_id, super_user_id)
                    \cup {"_structure_id", "_parent_structure_id"} |->
              IF k = "_structure_id" THEN node.structure_id
              ELSE IF k = "_parent_structure_id" THEN node.structure_parent_id
              ELSE _extract_user_from_customer(cu, company_id, super_user_id)[k]])
    ELSE
        Some([email |-> Txt_customer_ \o str(node.structure_id[1]) \o Txt_at_unknown,
              firstname |-> "",
              lastname |-> "",
              job_title |-> "",
              telephone |-> "",
              is_active |-> TRUE,
              is_company_admin |-> IF Truthy(super_user_id)
                                   THEN entity_id = super_user_id ELSE FALSE,
              company_id |-> company_id,
              team_id |-> None,
              role_id |-> None,
              role_name |-> None,
              magento_customer_id |-> str(entity_id[1]),
              _structure_id |-> node.structure_id,
              _parent_structure_id |-> node.structure_parent_id])

\* _extract_user_from_hierarchy: None, or Some(user).
_extract_user_from_hierarchy(node, company_id, super_user_id, cu) ==
    LET entity_id == node.entity_id IN
    IF ~Truthy(entity_id) THEN None
    ELSE IF cu.id = entity_id THEN
        Some([k \in DOMAIN _extract_user_from_customer(cu, company_id, super_user_id)
                    \cup {"_structure_id", "_parent_structure_id"} |->
              IF k = "_structure_id" THEN node.structure_id
              ELSE IF k = "_parent_structure_id" THEN node.structure_parent_id
              ELSE _extract_user_from_customer(cu, company_id, super_user_id)[k]])
    ELSE
        Some([email |-> Txt_customer_ \o str(entity_id[1]) \o Txt_at_unknown,
              firstname |-> "",
              lastname |-> "",
              job_title |-> "",
              telephone |-> "",
              is_active |-> TRUE,
              is_company_admin |-> IF Truthy(super_user_id)
                                   THEN entity_id = super_user_id ELSE FALSE,
              company_id |-> company_id,
              team_id |-> None,
              role_id |-> None,
              role_name |-> None,
              magento_customer_id |-> str(entity_id[1]),
              _structure_id |-> node.structure_id,
              _parent_structure_id |-> node.structure_parent_id])

\* _extract_team; detail is <<>> when team_details has no entry.
rest_extract_team(node, detail, company_id) ==
    [id |-> StrOrEmpty(node.entity_id),
     name |-> IF detail # <<>> THEN detail.name
              ELSE Txt_Team_ \o str(node.entity_id[1]),
     description |-> IF detail # <<>> THEN detail.description ELSE "",
     company_id |-> company_id,
     _structure_id |-> node.structure_id]

\* "".lower() of the entity types drawn.
lower_type(t) == IF t = "CUSTOMER" THEN "customer" ELSE IF t = "TEAM" THEN "team" ELSE t

\* Mutant: the node and its children, without their descendants.
_flatten_hierarchy_one_level(node) ==
    IF node = <<>> THEN <<>>
    ELSE <<[structure_id |-> node.structure_id,
            entity_id |-> node.entity_id,
            entity_type |-> lower_type(node.entity_type),
            structure_parent_id |-> node.structure_parent_id]>>
         \o [i \in 1..Len(node.children) |->
                [structure_id |-> node.children[i].structure_id,
                 entity_id |-> node.children[i].entity_id,
                 entity_type |-> lower_type(node.children[i].entity_type),
                 structure_parent_id |-> node.children[i].structure_parent_id]]

\* Mutant: the children are flattened before the node is appended.
RECURSIVE _flatten_hierarchy_children_first(_), FlattenAllFirst(_)
_flatten_hierarchy_children_first(node) ==
    IF node = <<>> THEN <<>>
    ELSE FlattenAllFirst(node.children)
         \o <<[structure_id |-> node.structure_id,
                entity_id |-> node.entity_id,
                entity_type |-> lower_type(node.entity_type),
                structure_parent_id |-> node.structure_parent_id]>>
FlattenAllFirst(cs) ==
    IF cs = <<>> THEN <<>>
    ELSE _flatten_hierarchy_children_first(Head(cs)) \o FlattenAllFirst(Tail(cs))

\* _flatten_hierarchy: pre-order, the node before its children.
RECURSIVE _flatten_hierarchy(_), FlattenAll(_)
_flatten_hierarchy(node) ==
    IF node = <<>> THEN <<>>
    ELSE <<[structure_id |-> node.structure_id,
            entity_id |-> node.entity_id,
            entity_type |-> lower_type(node.entity_type),
            structure_parent_id |-> node.structure_parent_id]>>
         \o FlattenAll(node.children)
FlattenAll(cs) ==
    IF cs = <<>> THEN <<>> ELSE _flatten_hierarchy(Head(cs)) \o FlattenAll(Tail(cs))

\* Lines 50-58 of extract(): the users of the customer nodes, in node order.
RECURSIVE WalkUsers(_, _, _, _)
WalkUsers(nodes, company_id, super_user_id, cu) ==
    IF nodes = <<>> THEN <<>>
    ELSE LET node == Head(nodes)
             user == _extract_user_from_hierarchy(node, company_id, super_user_id, cu)
             more == WalkUsers(Tail(nodes), company_id, super_user_id, cu)
         IN IF node.entity_type = "customer" /\ user # None
            THEN <<user[1]>> \o more ELSE more

\* Lines 66-76: the teams of the team nodes, deduplicated by entity_id.
RECURSIVE WalkTeams(_, _, _, _)
WalkTeams(nodes, seen, details, company_id) ==
    IF nodes = <<>> THEN <<>>
    ELSE LET node == Head(nodes)
             tid == node.entity_id
         IN IF node.entity_type = "team" /\ Truthy(tid) /\ tid \notin seen
            THEN <<rest_extract_team(node,
                       IF tid[1] \in DOMAIN details THEN details[tid[1]] ELSE <<>>,
                       company_id)>>
                 \o WalkTeams(Tail(nodes), seen \cup {tid}, details, company_id)
            ELSE WalkTeams(Tail(nodes), seen, details, company_id)

\* _extract_hierarchy_links
structure_map_of(nodes) ==
    [sid \in {nodes[i].structure_id : i \in {j \in 1..Len(nodes) : Truthy(nodes[j].structure_id)}} |->
        nodes[CHOOSE i \in 1..Len(nodes) :
                /\ nodes[i].structure_id = sid
                /\ \A j \in 1..Len(nodes) : nodes[j].structure_id = sid => j <= i]]

\* Mutant: both sides of a link are labelled from the child node.
RECURSIVE LinksFrom_child_labels(_, _)
LinksFrom_child_labels(nodes, smap) ==
    IF nodes = <<>> THEN <<>>
    ELSE LET node == Head(nodes)
             parent_sid == node.structure_parent_id
             label == IF node.entity_type = "customer" THEN "Customer" ELSE "CompanyTeam"
         IN IF Truthy(parent_sid) /\ parent_sid \in DOMAIN smap
            THEN <<[child_type |-> label,
                    child_entity |-> node,
                    parent_type |-> label,
                    parent_entity |-> smap[parent_sid]]>>
                 \o LinksFrom_child_labels(Tail(nodes), smap)
            ELSE LinksFrom_child_labels(Tail(nodes), smap)

RECURSIVE LinksFrom(_, _)
LinksFrom(nodes, smap) ==
    IF nodes = <<>> THEN <<>>
    ELSE LET node == Head(nodes)
             parent_sid == node.structure_parent_id
         IN IF Truthy(parent_sid) /\ parent_sid \in DOMAIN smap
            THEN <<[child_type |-> IF node.entity_type = "customer"
                                   THEN "Customer" ELSE "CompanyTeam",
                    child_entity |-> node,
                    parent_type |-> IF smap[parent_sid].entity_type = "customer"
                                    THEN "Customer" ELSE "CompanyTeam",
                    parent_entity |-> smap[parent_sid]]>>
                 \o LinksFrom(Tail(nodes), smap)
            ELSE LinksFrom(Tail(nodes), smap)

_extract_hierarchy_links(nodes) == LinksFrom(nodes, structure_map_of(nodes))

\* Mutant: the first user's email, whoever it is.
derive_admin_email_first_user(us, super_user_id) ==
    IF Truthy(super_user_id) /\ us # <<>> THEN us[1].email ELSE <<>>

\* Lines 91-97: the email of the first user whose customer id is super_user_id.
derive_admin_email(us, super_user_id) ==
    IF Truthy(super_user_id)
       /\ \E i \in 1..Len(us) : us[i].magento_customer_id = str(super_user_id[1])
    THEN us[CHOOSE i \in 1..Len(us) :
              /\ us[i].magento_customer_id = str(super_user_id[1])
              /\ \A j \in 1..(i - 1) : us[j].magento_customer_id # str(super_user_id[1])].email
    ELSE <<>>

restIdle ==
    /\ rest_pc = "idle" /\ current_user = <<>> /\ rest_company = <<>>
    /\ rest_roles = <<>> /\ rest_hierarchy = <<>> /\ team_details = <<>>
    /\ flat_nodes = <<>> /\ rest_users = <<>> /\ rest_teams = <<>>
    /\ role_entities = <<>> /\ rest_result = <<>>

restInit ==
    /\ rest_pc = "start"
    /\ current_user \in CurrentUserInputs
    /\ rest_company \in CompanyRestInputs
    /\ rest_roles = RolesRestInput
    /\ rest_hierarchy \in HierarchyInputs
    /\ team_details = TeamDetailsInput
    /\ flat_nodes = <<>> /\ rest_users = <<>> /\ rest_teams = <<>>
    /\ role_entities = <<>> /\ rest_result = <<>>

restInputs == <<current_user, rest_company, rest_roles, rest_hierarchy, team_details>>

\* extract(), lines 40-48: flatten the tree.
RestFlatten ==
    /\ rest_pc = "start"
    /\ flat_nodes' = _flatten_hierarchy(rest_hierarchy)
    /\ rest_pc' = "flat"
    /\ UNCHANGED <<restInputs, rest_users, rest_teams, role_entities, rest_result>>

\* extract(), lines 50-58: one user per customer node.
RestWalkUsers ==
    /\ rest_pc = "flat"
    /\ rest_users' = WalkUsers(flat_nodes, StrOrEmpty(rest_company.id),
                               rest_company.super_user_id, current_user)
    /\ rest_pc' = "walked"
    /\ UNCHANGED <<restInputs, flat_nodes, rest_teams, role_entities, rest_result>>

\* Mutant: the authenticated user is appended without looking at the users.
RestAppendAuth_always ==
    /\ rest_pc = "walked"
    /\ rest_users' =
          IF current_user.email # <<>>
          THEN Append(rest_users,
                      _extract_user_from_customer(current_user, StrOrEmpty(rest_company.id),
                                                  rest_company.super_user_id))
          ELSE rest_users
    /\ rest_pc' = "users"
    /\ UNCHANGED <<restInputs, flat_nodes, rest_teams, role_entities, rest_result>>

\* extract(), lines 60-64: the authenticated user, when no user has their email.
RestAppendAuth ==
    /\ rest_pc = "walked"
    /\ LET auth_email == current_user.email IN
       rest_users' =
          IF auth_email # <<>>
             /\ ~\E i \in 1..Len(rest_users) : rest_users[i].email = auth_email
          THEN Append(rest_users,
                      _extract_user_from_customer(current_user, StrOrEmpty(rest_company.id),
                                                  rest_company.super_user_id))
          ELSE rest_users
    /\ rest_pc' = "users"
    /\ UNCHANGED <<restInputs, flat_nodes, rest_teams, role_entities, rest_result>>

\* extract(), lines 66-86: teams and roles.
RestTeamsRoles ==
    /\ rest_pc = "users"
    /\ rest_teams' = WalkTeams(flat_nodes, {}, team_details, StrOrEmpty(rest_company.id))
    /\ role_entities' = [i \in 1..Len(rest_roles) |->
                            [id |-> StrOrEmpty(rest_roles[i].id),
                             name |-> rest_roles[i].role_name,
                             company_id |-> StrOrEmpty(rest_company.id),
                             permissions |-> rest_roles[i].permissions]]
    /\ rest_pc' = "teams"
    /\ UNCHANGED <<restInputs, flat_nodes, rest_users, rest_result>>

\* extract(), lines 88-111: hierarchy links, admin email, the result.
RestFinish ==
    /\ rest_pc = "teams"
    /\ rest_result' = Some([company |-> rest_extract_company(rest_company),
                            users |-> rest_users,
                            teams |-> rest_teams,
                            roles |-> role_entities,
                            hierarchy |-> _extract_hierarchy_links(flat_nodes),
                            admin_email |-> derive_admin_email(rest_users,
                                                rest_company.super_user_id)])
    /\ rest_pc' = "done"
    /\ UNCHANGED <<restInputs, flat_nodes, rest_users, rest_teams, role_entities>>

-----------------------------------------------------------------------------
(* The two user builders side by side: _extract_user (GraphQL) and         *)
(* _extract_user_from_customer (REST), each applied to one customer.       *)

stIdle ==
    /\ st_entity = <<>> /\ st_admin_email = <<>> /\ st_customer = <<>>
    /\ st_super_user_id = <<>> /\ st_gql_user = <<>> /\ st_rest_user = <<>>

stInit ==
    /\ st_entity \in CustomerEntities
    /\ st_admin_email \in {c.company_admin_email : c \in CompanyInputs}
    /\ st_customer \in CurrentUserInputs
    /\ st_super_user_id \in {c.super_user_id : c \in CompanyRestInputs}
    /\ st_gql_user = <<>> /\ st_rest_user = <<>>

\* _extract_user(entity, company_id, admin_email), company "1"
BuildGraphQLUser ==
    /\ st_gql_user = <<>>
    /\ st_gql_user' = Some(_extract_user(st_entity, Txt_1, st_admin_email))
    /\ UNCHANGED <<st_entity, st_admin_email, st_customer, st_super_user_id, st_rest_user>>

\* _extract_user_from_customer(customer, company_id, super_user_id), company "1"
BuildRESTUser ==
    /\ st_rest_user = <<>>
    /\ st_rest_user' = Some(_extract_user_from_customer(st_customer, Txt_1, st_super_user_id))
    /\ UNCHANGED <<st_entity, st_admin_email, st_customer, st_super_user_id, st_gql_user>>

-----------------------------------------------------------------------------
(* RoleGapHandler (reference/legacy/rest-connector)                        *)

Txt_default_user == <<100, 101, 102, 97, 117, 108, 116, 32, 117, 115, 101, 114>>   \* "default user"
Txt_Default_User == <<68, 101, 102, 97, 117, 108, 116, 32, 85, 115, 101, 114>>   \* "Default User"
Txt_admin == <<97, 100, 109, 105, 110>>   \* "admin"
Txt_Company_Administrator == <<67, 111, 109, 112, 97, 110, 121, 32, 65, 100, 109, 105, 110, 105, 115, 116, 114, 97, 116, 111, 114>>   \* "Company Administrator"
Txt_Purchaser == <<80, 117, 114, 99, 104, 97, 115, 101, 114>>   \* "Purchaser"
Txt_PURCHASER == <<80, 85, 82, 67, 72, 65, 83, 69, 82>>   \* "PURCHASER"
Txt_Buyer == <<66, 117, 121, 101, 114>>   \* "Buyer"
Txt_Site_ADMIN == <<83, 105, 116, 101, 32, 65, 68, 77, 73, 78>>   \* "Site ADMIN"
Txt_NonExistentRole == <<78, 111, 110, 69, 120, 105, 115, 116, 101, 110, 116, 82, 111, 108, 101>>   \* "NonExistentRole"
Txt_a_x_padded == <<32, 97, 64, 120, 32>>   \* " a@x "

STRATEGIES == {"default_role", "csv_supplement", "all_roles", "skip"}
\* The strategy names drawn: the four strategies and one that is none of them.
StrategyInputs == STRATEGIES \cup {"bogus_strategy"}

\* The roles lists drawn: none; the sample roles; a lower-case default role
\* and no admin role; neither a default nor an admin role; two admin roles.
RoleListInputs ==
    { <<>>,
      << [id |-> "1", name |-> Txt_Company_Administrator],
         [id |-> "2", name |-> Txt_Default_User],
         [id |-> "3", name |-> Txt_Purchaser] >>,
      << [id |-> "3", name |-> Txt_Purchaser],
         [id |-> "4", name |-> Txt_default_user] >>,
      << [id |-> "3", name |-> Txt_Purchaser],
         [id |-> "5", name |-> Txt_Buyer] >>,
      << [id |-> "3", name |-> Txt_Purchaser],
         [id |-> "6", name |-> Txt_Site_ADMIN],
         [id |-> "1", name |-> Txt_Company_Administrator] >> }

\* The users drawn: with and without the admin flag, with and without a role.
UserInputs ==
    { [email |-> Txt_a_x, is_company_admin |-> FALSE, role_id |-> None, role_name |-> None],
      [email |-> Txt_A_x, is_company_admin |-> TRUE, role_id |-> None, role_name |-> None],
      [email |-> Txt_b_x, is_company_admin |-> FALSE,
       role_id |-> Some("3"), role_name |-> Some(Txt_Purchaser)],
      [email |-> Txt_b_x, is_company_admin |-> TRUE,
       role_id |-> Some("9"), role_name |-> Some(Txt_admin)] }
UserListInputs == UNION {[1..n -> UserInputs] : n \in 0..MaxUsers}

\* The CSV files drawn: no file, a file whose read raises, and readable
\* files given by their data rows (email, role_name).
CsvMissing == [state |-> "missing", rows |-> <<>>]
CsvInputs ==
    { CsvMissing, [state |-> "unreadable", rows |-> <<>>] }
    \cup
    { [state |-> "readable", rows |-> r] : r \in
        { <<>>,
          << [email |-> Txt_a_x, role_name |-> Txt_Purchaser] >>,
          << [email |-> Txt_A_X, role_name |-> Txt_Purchaser] >>,
          << [email |-> Txt_a_x_padded, role_name |-> Txt_PURCHASER] >>,
          << [email |-> Txt_a_x, role_name |-> Txt_NonExistentRole] >>,
          << [email |-> Txt_a_x, role_name |-> <<>>],
             [email |-> <<>>, role_name |-> Txt_Default_User] >>,
          << [email |-> Txt_a_x, role_name |-> Txt_Purchaser],
             [email |-> Txt_b_x, role_name |-> Txt_Default_User],
             [email |-> Txt_a_x, role_name |-> Txt_Buyer] >> } }

\* str.strip() for the blank.
RECURSIVE lstrip(_)
lstrip(s) == IF s # <<>> /\ Head(s) = 32 THEN lstrip(Tail(s)) ELSE s
RECURSIVE rstrip(_)
rstrip(s) == IF s # <<>> /\ s[Len(s)] = 32 THEN rstrip(SubSeq(s, 1, Len(s) - 1)) ELSE s
strip(s) == rstrip(lstrip(s))

\* sub in s
contains(sub, s) ==
    \E i \in 0..(Len(s) - Len(sub)) : SubSeq(s, i + 1, i + Len(sub)) = sub

\* default_role of _resolve_default_role: the first role named "default user"
\* whatever the case, else the first role, else None.
find_default_role(rs) ==
    IF \E i \in 1..Len(rs) : lower(rs[i].name) = Txt_default_user
    THEN Some(rs[CHOOSE i \in 1..Len(rs) :
                    /\ lower(rs[i].name) = Txt_default_user
                    /\ \A j \in 1..(i - 1) : lower(rs[j].name) # Txt_default_user])
    ELSE IF rs # <<>> THEN Some(rs[1]) ELSE None

\* admin_role of _resolve_default_role: the first role with "admin" in its
\* lower-cased name, else None.
find_admin_role(rs) ==
    IF \E i \in 1..Len(rs) : contains(Txt_admin, lower(rs[i].name))
    THEN Some(rs[CHOOSE i \in 1..Len(rs) :
                    /\ contains(Txt_admin, lower(rs[i].name))
                    /\ \A j \in 1..(i - 1) : ~contains(Txt_admin, lower(rs[j].name))])
    ELSE None

\* user["role_id"] = role["id"]; user["role_name"] = role["name"]
assign_role(user, role) ==
    [user EXCEPT !.role_id = Some(role.id), !.role_name = Some(role.name)]

\* Mutant: the default role is the role named "Default User" to the letter.
_resolve_default_role_literal(us, rs) ==
    LET default_role ==
            IF \E i \in 1..Len(rs) : rs[i].name = Txt_Default_User
            THEN Some(rs[CHOOSE i \in 1..Len(rs) : rs[i].name = Txt_Default_User])
            ELSE IF rs # <<>> THEN Some(rs[1]) ELSE None
        admin_role == find_admin_role(rs)
    IN [i \in 1..Len(us) |->
          IF us[i].role_id # None THEN us[i]
          ELSE IF us[i].is_company_admin
               THEN IF admin_role # None THEN assign_role(us[i], admin_role[1]) ELSE us[i]
               ELSE IF default_role # None THEN assign_role(us[i], default_role[1]) ELSE us[i]]

_resolve_default_role(us, rs) ==
    LET default_role == find_default_role(rs)
        admin_role == find_admin_role(rs)
    IN [i \in 1..Len(us) |->
          IF us[i].role_id # None THEN us[i]
          ELSE IF us[i].is_company_admin
               THEN IF admin_role # None THEN assign_role(us[i], admin_role[1]) ELSE us[i]
               ELSE IF default_role # None THEN assign_role(us[i], default_role[1]) ELSE us[i]]

\* email_to_role: the rows with both fields, keyed by the stripped lower-case
\* email; a later row replaces an earlier one.
RECURSIVE load_csv(_, _)
load_csv(rows, email_to_role) ==
    IF rows = <<>> THEN email_to_role
    ELSE LET email == lower(strip(Head(rows).email))
             role_name == strip(Head(rows).role_name)
         IN load_csv(Tail(rows),
                     IF email # <<>> /\ role_name # <<>>
                     THEN DictSet(email_to_role, email, role_name)
                     ELSE email_to_role)

\* role_by_name: lower-case name -> role; a later role replaces an earlier one.
RECURSIVE role_by_name_of(_, _)
role_by_name_of(rs, role_by_name) ==
    IF rs = <<>> THEN role_by_name
    ELSE role_by_name_of(Tail(rs), DictSet(role_by_name, lower(Head(rs).name), Head(rs)))

\* Mutant: the user's email is looked up as it is written.
_resolve_csv_supplement_exact_email(us, rs, csv) ==
    IF csv.state # "readable" THEN _resolve_default_role(us, rs)
    ELSE LET email_to_role == load_csv(csv.rows, <<>>)
             role_by_name == role_by_name_of(rs, <<>>)
         IN [i \in 1..Len(us) |->
               IF us[i].role_id # None THEN us[i]
               ELSE IF us[i].email \in DOMAIN email_to_role
                       /\ lower(email_to_role[us[i].email]) \in DOMAIN role_by_name
                    THEN assign_role(us[i],
                             role_by_name[lower(email_to_role[us[i].email])])
                    ELSE us[i]]

_resolve_csv_supplement(us, rs, csv) ==
    IF csv.state # "readable" THEN _resolve_default_role(us, rs)
    ELSE LET email_to_role == load_csv(csv.rows, <<>>)
             role_by_name == role_by_name_of(rs, <<>>)
         IN [i \in 1..Len(us) |->
               IF us[i].role_id # None THEN us[i]
               ELSE IF lower(us[i].email) \in DOMAIN email_to_role
                       /\ lower(email_to_role[lower(us[i].email)]) \in DOMAIN role_by_name
                    THEN assign_role(us[i],
                             role_by_name[lower(email_to_role[lower(us[i].email)])])
                    ELSE us[i]]

_resolve_all_roles(us) == us

\* Mutant: skip leaves the users as they are.
_resolve_skip_untouched(us) == us

_resolve_skip(us) == [i \in 1..Len(us) |-> [us[i] EXCEPT !.role_id = None, !.role_name = None]]

resolve(strategy, us, rs, csv) ==
    IF strategy = "default_role" THEN _resolve_default_role(us, rs)
    ELSE IF strategy = "csv_supplement" THEN _resolve_csv_supplement(us, rs, csv)
    ELSE IF strategy = "all_roles" THEN _resolve_all_roles(us)
    ELSE IF strategy = "skip" THEN _resolve_skip(us)
    ELSE us

rghIdle ==
    /\ rgh_pc = "idle" /\ rgh_strategy_arg = "" /\ rgh_csv = CsvMissing
    /\ rgh_handler = <<>> /\ rgh_raised = <<>>
    /\ rgh_users_arg = <<>> /\ rgh_users = <<>> /\ rgh_roles = <<>>

\* Step 8 of RESTOrchestrator.run: the entities are extracted, the handler is
\* about to be constructed.  A CSV file is drawn for csv_supplement only.
rghInit ==
    /\ rgh_pc = "start"
    /\ rgh_strategy_arg \in StrategyInputs
    /\ rgh_csv \in (IF rgh_strategy_arg = "csv_supplement" THEN CsvInputs ELSE {CsvMissing})
    /\ rgh_handler = <<>> /\ rgh_raised = <<>>
    /\ rgh_users_arg \in UserListInputs
    /\ rgh_users = rgh_users_arg
    /\ rgh_roles \in RoleListInputs

\* Mutant: __init__ stores the strategy without validating it.
RghConstruct_unvalidated ==
    /\ rgh_pc = "start"
    /\ rgh_handler' = Some([strategy |-> rgh_strategy_arg])
    /\ rgh_pc' = "ready"
    /\ UNCHANGED <<rgh_strategy_arg, rgh_csv, rgh_raised, rgh_users_arg, rgh_users, rgh_roles>>

\* RoleGapHandler.__init__
RghConstruct ==
    /\ rgh_pc = "start"
    /\ IF rgh_strategy_arg \notin STRATEGIES
       THEN /\ rgh_raised' = Some([type |-> "ValueError",
                                   message |-> <<"Invalid strategy: ", rgh_strategy_arg,
                                                 ". Must be one of: ", STRATEGIES>>])
            /\ rgh_pc' = "failed"
            /\ UNCHANGED rgh_handler
       ELSE /\ rgh_handler' = Some([strategy |-> rgh_strategy_arg])
            /\ rgh_pc' = "ready"
            /\ UNCHANGED rgh_raised
    /\ UNCHANGED <<rgh_strategy_arg, rgh_csv, rgh_users_arg, rgh_users, rgh_roles>>

\* RoleGapHandler.resolve, on the constructed handler.
RghResolve ==
    /\ rgh_pc = "ready"
    /\ rgh_users' = resolve(rgh_handler[1].strategy, rgh_users, rgh_roles, rgh_csv)
    /\ rgh_pc' = "done"
    /\ UNCHANGED <<rgh_strategy_arg, rgh_csv, rgh_handler, rgh_raised, rgh_users_arg, rgh_roles>>

-----------------------------------------------------------------------------
(* RelationshipBuilder._build_reports_to (on-prem-graphql, cloud-rest)     *)

\* The entities a resolved link carries: users by their email (one without
\* email, one that is no local user of the application) and a team.
CustomerEntityInputs == {[email |-> e] : e \in {"a@x", "b@x", "c@x", ""}}
TeamEntityInput == [id |-> "1", name |-> "Engineering"]
TypedEntities ==
    {<<"Customer", e>> : e \in CustomerEntityInputs} \cup {<<"CompanyTeam", TeamEntityInput>>}
LinkInputs ==
    {[child_type |-> c[1], child_entity |-> c[2],
      parent_type |-> q[1], parent_entity |-> q[2]] :
        c \in TypedEntities, q \in {<<"Customer", [email |-> "a@x"]>>,
                                   <<"Customer", [email |-> "b@x"]>>,
                                   <<"Customer", [email |-> ""]>>,
                                   <<"CompanyTeam", TeamEntityInput>>}}
LinkListInputs == UNION {[1..n -> LinkInputs] : n \in 0..MaxLinks}

\* entity.get("email", "")
get_email(entity) == IF "email" \in DOMAIN entity THEN entity.email ELSE ""

\* Mutant: a customer reports to whatever its parent is, a team by its name.
_build_reports_to_link_any_parent(lu, link) ==
    LET child_email == get_email(link.child_entity)
        parent_email == IF "email" \in DOMAIN link.parent_entity
                        THEN link.parent_entity.email ELSE link.parent_entity.name
    IN IF link.child_type = "Customer"
          /\ child_email # "" /\ parent_email # "" /\ child_email # parent_email
          /\ child_email \in DOMAIN lu
       THEN [lu EXCEPT ![child_email] = Some(parent_email)]
       ELSE lu

\* One iteration of the loop of _build_reports_to on app.local_users.
_build_reports_to_link(lu, link) ==
    LET child_email == get_email(link.child_entity)
        parent_email == get_email(link.parent_entity)
    IN IF link.child_type = "Customer" /\ link.parent_type = "Customer"
          /\ child_email # "" /\ parent_email # "" /\ child_email # parent_email
          /\ child_email \in DOMAIN lu /\ parent_email \in DOMAIN lu
       THEN [lu EXCEPT ![child_email] = Some(parent_email)]
       ELSE lu

relIdle ==
    /\ rel_pc = "idle" /\ rel_hierarchy = <<>> /\ rel_i = 0 /\ local_users = <<>>

\* The application is built (users "a@x" and "b@x", no reports_to yet) and
\* build_all reaches relationship 6, in the GraphQL or in the REST builder.
relInit ==
    /\ rel_pc \in {"graphql", "rest"}
    /\ rel_hierarchy \in LinkListInputs
    /\ rel_i = 0
    /\ local_users = [e \in {"a@x", "b@x"} |-> None]

\* on-prem-graphql _build_reports_to: the next link of the loop.
BuildReportsToLink ==
    /\ rel_pc = "graphql" /\ rel_i < Len(rel_hierarchy)
    /\ local_users' = _build_reports_to_link(local_users, rel_hierarchy[rel_i + 1])
    /\ rel_i' = rel_i + 1
    /\ UNCHANGED <<rel_pc, rel_hierarchy>>

\* on-prem-graphql _build_reports_to: the loop is over.
BuildReportsToReturn ==
    /\ rel_pc = "graphql" /\ rel_i = Len(rel_hierarchy)
    /\ rel_pc' = "done"
    /\ UNCHANGED <<rel_hierarchy, rel_i, local_users>>

\* cloud-rest _build_reports_to: pass.
RestBuildReportsTo ==
    /\ rel_pc = "rest"
    /\ rel_pc' = "done"
    /\ UNCHANGED <<rel_hierarchy, rel_i, local_users>>

-----------------------------------------------------------------------------
(* GraphQLOrchestrator.run (on-prem-graphql)                               *)

\* MAGENTO_ACL_PERMISSIONS: the resource IDs of the ACL catalog.
MAGENTO_ACL_PERMISSIONS ==
    {"Magento_Company::index", "Magento_Sales::all",
      "Magento_Sales::place_order", "Magento_Sales::payment_account",
      "Magento_Sales::view_orders", "Magento_Sales::view_orders_sub",
      "Magento_NegotiableQuote::all", "Magento_NegotiableQuote::view_quotes",
      "Magento_NegotiableQuote::manage", "Magento_NegotiableQuote::checkout",
      "Magento_NegotiableQuote::view_quotes_sub",
      "Magento_PurchaseOrder::all",
      "Magento_PurchaseOrder::view_purchase_orders",
      "Magento_PurchaseOrder::view_purchase_orders_for_subordinates",
      "Magento_PurchaseOrder::view_purchase_orders_for_company",
      "Magento_PurchaseOrder::autoapprove_purchase_order",
      "Magento_PurchaseOrderRule::super_approve_purchase_order",
      "Magento_PurchaseOrderRule::view_approval_rules",
      "Magento_PurchaseOrderRule::manage_approval_rules",
      "Magento_Company::view", "Magento_Company::view_account",
      "Magento_Company::edit_account", "Magento_Company::view_address",
      "Magento_Company::edit_address", "Magento_Company::contacts",
      "Magento_Company::payment_information",
      "Magento_Company::shipping_information",
      "Magento_Company::user_management", "Magento_Company::roles_view",
      "Magento_Company::roles_edit", "Magento_Company::users_view",
      "Magento_Company::users_edit", "Magento_Company::credit",
      "Magento_Company::credit_history" }

\* The roles GET /rest/V1/company/role may return: two allows of catalogued
\* resources, a deny, an allow of an unknown resource followed by an allow
\* of a catalogued one, a role that the application does not hold.
RestRoleInputs ==
    { [id |-> "1", permissions |->
          <<[resource_id |-> "Magento_Company::index", permission |-> "allow"],
            [resource_id |-> "Magento_Sales::place_order", permission |-> "allow"]>>],
      [id |-> "1", permissions |->
          <<[resource_id |-> "Magento_Sales::place_order", permission |-> "deny"]>>],
      [id |-> "2", permissions |->
          <<[resource_id |-> "Unknown::resource", permission |-> "allow"],
            [resource_id |-> "Magento_Company::index", permission |-> "allow"]>>],
      [id |-> "7", permissions |->
          <<[resource_id |-> "Magento_Sales::place_order", permission |-> "allow"]>>] }
RestRoleResponses == UNION {[1..n -> RestRoleInputs] : n \in 0..MaxRestRoles}

\* app.local_roles of the built application: the roles 1 and 2 of company 1,
\* each named by (company id, role id).
AppLocalRoles == {<<"1", "1">>, <<"1", "2">>}

\* _build_role_permissions_from_rest: the calls of local_role.add_permissions,
\* each named by (index of the role, index of the permission entry); fetched
\* is the rest_roles argument.
add_permissions_calls(company_id, fetched) ==
    IF fetched = None THEN {}
    ELSE LET listed == fetched[1] IN
         {p \in UNION {{<<i, j>> : j \in 1..Len(listed[i].permissions)} :
                          i \in 1..Len(listed)} :
             /\ <<company_id, listed[p[1]].id>> \in AppLocalRoles
             /\ listed[p[1]].permissions[p[2]].permission = "allow"
             /\ listed[p[1]].permissions[p[2]].resource_id \in MAGENTO_ACL_PERMISSIONS}

\* The link that one call of add_permissions adds.
link_of(company_id, fetched, p) ==
    <<<<company_id, fetched[1][p[1]].id>>,
      fetched[1][p[1]].permissions[p[2]].resource_id>>

\* (i, j) comes before (k, l) in the two nested loops.
loop_before(p, q) == p[1] < q[1] \/ (p[1] = q[1] /\ p[2] < q[2])

\* Mutant: the first add_permissions that raises ends both loops.
_build_role_permissions_from_rest_stop_at_failure(company_id, fetched, failing) ==
    {link_of(company_id, fetched, p) :
        p \in {q \in add_permissions_calls(company_id, fetched) :
                  \A f \in failing : loop_before(q, f)}}

\* _build_role_permissions_from_rest: the links added; failing holds the
\* calls of add_permissions that raise, each caught where it is made.
_build_role_permissions_from_rest(company_id, fetched, failing) ==
    {link_of(company_id, fetched, p) :
        p \in add_permissions_calls(company_id, fetched) \ failing}

\* _build_role_permissions: the links added for rest_roles (None or empty:
\* no link).
_build_role_permissions(company_id, fetched, failing) ==
    IF fetched = None \/ fetched[1] = <<>> THEN {}
    ELSE _build_role_permissions_from_rest(company_id, fetched, failing)

orcIdle ==
    /\ orc_pc = "idle" /\ use_rest_supplement = FALSE /\ orc_company_id = ""
    /\ orc_rest_roles = None /\ orc_warnings = <<>> /\ role_permissions = {}
    /\ add_failed = {}
    /\ results = [success |-> FALSE, error |-> None]

orcInit ==
    /\ orc_pc = "auth"
    /\ use_rest_supplement \in BOOLEAN
    /\ orc_company_id = ""
    /\ orc_rest_roles = None /\ orc_warnings = <<>> /\ role_permissions = {}
    /\ add_failed = {}
    /\ results = [success |-> FALSE, error |-> None]

\* run()'s except: the error is recorded (here by the step that raised),
\* success stays False, run returns.
Abort(step) ==
    /\ results' = [results EXCEPT !.error = Some(step)]
    /\ orc_pc' = "returned"

\* Step 1: magento.authenticate()
OrcAuthenticate ==
    /\ orc_pc = "auth"
    /\ \E raised \in BOOLEAN :
          IF raised THEN Abort("authenticate")
          ELSE orc_pc' = "query" /\ UNCHANGED results
    /\ UNCHANGED <<use_rest_supplement, orc_company_id, orc_rest_roles,
                   orc_warnings, role_permissions, add_failed>>

\* Step 2: magento.execute_graphql(FULL_EXTRACTION_QUERY); the response
\* carries company 1 or no company id.
OrcGraphQLQuery ==
    /\ orc_pc = "query"
    /\ \E raised \in BOOLEAN, company_id \in {"1", ""} :
          IF raised THEN Abort("execute_graphql") /\ UNCHANGED orc_company_id
          ELSE /\ orc_company_id' = company_id
               /\ orc_pc' = "supplement"
               /\ UNCHANGED results
    /\ UNCHANGED <<use_rest_supplement, orc_rest_roles, orc_warnings, role_permissions,
                   add_failed>>

\* Mutant: step 3 without its try/except.
OrcRestSupplement_unguarded ==
    /\ orc_pc = "supplement"
    /\ IF use_rest_supplement /\ orc_company_id # ""
       THEN \E raised \in BOOLEAN, response \in RestRoleResponses :
              IF raised
              THEN Abort("get_company_roles_rest") /\ UNCHANGED orc_rest_roles
              ELSE /\ orc_rest_roles' = Some(response)
                   /\ orc_pc' = "build"
                   /\ UNCHANGED results
       ELSE orc_pc' = "build" /\ UNCHANGED <<orc_rest_roles, results>>
    /\ UNCHANGED <<use_rest_supplement, orc_company_id, orc_warnings, role_permissions,
                   add_failed>>

\* Step 3: the optional REST role supplement, inside try/except.
OrcRestSupplement ==
    /\ orc_pc = "supplement"
    /\ IF use_rest_supplement /\ orc_company_id # ""
       THEN \E raised \in BOOLEAN, response \in RestRoleResponses :
              IF raised
              THEN /\ orc_warnings' = orc_warnings \o
                          <<"Warning: REST role supplement failed",
                            "Continuing without explicit permission data">>
                   /\ UNCHANGED orc_rest_roles
              ELSE /\ orc_rest_roles' = Some(response)
                   /\ UNCHANGED orc_warnings
       ELSE UNCHANGED <<orc_rest_roles, orc_warnings>>
    /\ orc_pc' = "build"
    /\ UNCHANGED <<use_rest_supplement, orc_company_id, role_permissions, add_failed,
                   results>>

\* Steps 4 to 6: extract the entities, build the application, wire the
\* relationships (of which relationship 4, role -> permission).
OrcBuild ==
    /\ orc_pc = "build"
    /\ \E raised \in BOOLEAN :
          IF raised THEN Abort("build") /\ UNCHANGED <<role_permissions, add_failed>>
          ELSE /\ \E failing \in SUBSET add_permissions_calls(orc_company_id,
                                                              orc_rest_roles) :
                     /\ role_permissions' = _build_role_permissions(orc_company_id,
                                                    orc_rest_roles, failing)
                     /\ add_failed' = failing
               /\ orc_pc' = "save"
               /\ UNCHANGED results
    /\ UNCHANGED <<use_rest_supplement, orc_company_id, orc_rest_roles, orc_warnings>>

\* Step 7: save the output; results["success"] = True.
OrcSave ==
    /\ orc_pc = "save"
    /\ \E raised \in BOOLEAN :
          IF raised THEN Abort("save")
          ELSE /\ results' = [results EXCEPT !.success = TRUE]
               /\ orc_pc' = "returned"
    /\ UNCHANGED <<use_rest_supplement, orc_company_id, orc_rest_roles,
                   orc_warnings, role_permissions, add_failed>>

-----------------------------------------------------------------------------
(* ImsAuthClient (backlog/cloud-rest)                                      *)

\* The answers of the IMS token endpoint: an error status, or a token with
\* its expires_in (None when the answer carries no expires_in).
TokenResponses ==
    {[ok |-> FALSE, access_token |-> "", expires_in |-> None]}
    \cup {[ok |-> TRUE, access_token |-> t, expires_in |-> e] :
             t \in {"token-1", "token-2"}, e \in {Some(30), Some(120), None}}

\* data.get("expires_in", 3600)
expires_in_of(response) ==
    IF response.expires_in = None THEN 3600 ELSE response.expires_in[1]

\* self._token and time.time() < self._expires_at - 60
cache_is_fresh == ims_token # None /\ now < ims_expires_at - 60

imsIdle ==
    /\ ims_pc = "idle" /\ now = 0 /\ ims_token = None /\ ims_expires_at = 0
    /\ ims_response = <<>> /\ ims_result = <<>>
    /\ ims_calls = 0 /\ http_posts = 0 /\ api_status = 0

\* ImsAuthClient.__init__
imsInit ==
    /\ ims_pc = "ready" /\ now = 0 /\ ims_token = None /\ ims_expires_at = 0
    /\ ims_response = <<>> /\ ims_result = <<>>
    /\ ims_calls = 0 /\ http_posts = 0 /\ api_status = 0

\* The clock advances, also while a token request is under way.
Tick ==
    /\ now < 30 * MaxTicks
    /\ now' = now + 30
    /\ UNCHANGED <<ims_pc, ims_token, ims_expires_at, ims_response, ims_result,
                   ims_calls, http_posts, api_status>>

\* Mutant: the cached token is returned up to its expiry, without margin.
GetTokenCached_no_margin ==
    /\ ims_pc = "ready" /\ ims_calls < MaxCalls
    /\ ims_token # None /\ now < ims_expires_at
    /\ ims_calls' = ims_calls + 1
    /\ ims_result' = [raised |-> FALSE, token |-> ims_token[1]]
    /\ UNCHANGED <<ims_pc, now, ims_token, ims_expires_at, ims_response,
                   http_posts, api_status>>

\* get_token, lines 32-33: the cached token is returned.
GetTokenCached ==
    /\ ims_pc = "ready" /\ ims_calls < MaxCalls
    /\ cache_is_fresh
    /\ ims_calls' = ims_calls + 1
    /\ ims_result' = [raised |-> FALSE, token |-> ims_token[1]]
    /\ UNCHANGED <<ims_pc, now, ims_token, ims_expires_at, ims_response,
                   http_posts, api_status>>

\* get_token, lines 32-45: no fresh token, the token request is sent.
GetTokenRequest ==
    /\ ims_pc = "ready" /\ ims_calls < MaxCalls
    /\ ~cache_is_fresh
    /\ ims_calls' = ims_calls + 1
    /\ http_posts' = http_posts + 1
    /\ ims_pc' = "requesting"
    /\ UNCHANGED <<now, ims_token, ims_expires_at, ims_response, ims_result, api_status>>

\* get_token, lines 45-55: the answer arrives; raise_for_status raises on an
\* error status, else the token and its expiry are stored and returned.
GetTokenResponse ==
    /\ ims_pc = "requesting"
    /\ \E response \in TokenResponses :
          /\ ims_response' = response
          /\ IF response.ok
             THEN /\ ims_token' = Some(response.access_token)
                  /\ ims_expires_at' = now + expires_in_of(response)
                  /\ ims_result' = [raised |-> FALSE, token |-> response.access_token]
             ELSE /\ ims_result' = [raised |-> TRUE, token |-> ""]
                  /\ UNCHANGED <<ims_token, ims_expires_at>>
    /\ ims_pc' = "ready"
    /\ UNCHANGED <<now, ims_calls, http_posts, api_status>>

\* A Commerce API call with the token the client holds: the answer, 200 or
\* 401, does not reach the ImsAuthClient.
ApiCall ==
    /\ ims_pc = "ready" /\ ims_token # None
    /\ \E status \in {200, 401} : api_status' = status /\ api_status # status
    /\ UNCHANGED <<ims_pc, now, ims_token, ims_expires_at, ims_response, ims_result,
                   ims_calls, http_posts>>

-----------------------------------------------------------------------------
(* execute_veza_push with PreflightChecker, ProviderRegistry and VezaClient *)
(* (shared/magento_oaa_shared, reference/legacy/rest-connector)            *)

Txt_M1 == <<77, 49>>                            \* "M1"
Txt_M_1 == <<77, 32, 49>>                       \* "M 1"
Txt_P == <<80>>                                 \* "P"
Txt_Other == <<79, 116, 104, 101, 114>>         \* "Other"

\* str.isalnum() of one ASCII character.
isalnum(c) == (c >= 48 /\ c <= 57) \/ (c >= 65 /\ c <= 90) \/ (c >= 97 /\ c <= 122)

\* VezaClient.generate_provider_name: every character but letters, digits,
\* "-" and "_" becomes "_"; a non-empty prefix is put in front with "_".
generate_provider_name(app_name, prefix) ==
    LET safe_name == [i \in 1..Len(app_name) |->
                        IF isalnum(app_name[i]) \/ app_name[i] \in {45, 95}
                        THEN app_name[i] ELSE 95]
    IN  IF prefix # <<>> THEN prefix \o <<95>> \o safe_name ELSE safe_name

\* company.get("name", ""): the data source name of a push by name.
Txt_Acme == <<65, 99, 109, 101>>                \* "Acme"
Txt_ext == <<101, 120, 116>>                    \* "ext"

\* PreflightResult()
PreflightResult ==
    [proceed |-> TRUE, conflicts |-> <<>>, has_conflicts |-> FALSE,
     override_provider |-> FALSE, existing_provider_id |-> None,
     existing_data_source_id |-> None]

\* OAAClient.get_provider(name): the provider of that name, or None.
get_provider(name) ==
    IF \E p \in veza_providers : p.name = name
    THEN Some(CHOOSE p \in veza_providers : p.name = name)
    ELSE None

\* Mutant: the registry file is never read.
load_nothing == <<>>

\* ProviderRegistry.load: name -> id of the entries that have both; an
\* absent or unreadable file loads as the empty dict.  A later entry of the
\* same name overwrites an earlier one.
load ==
    IF registry_file.state # "ok" THEN <<>>
    ELSE registry_file.providers

previous_id_of(name) ==
    LET entries == load
        hits == {k \in 1..Len(entries) : entries[k].name = name}
    IN  IF hits = {} THEN None
        ELSE Some(entries[CHOOSE k \in hits : \A j \in hits : j <= k].id)

\* Mutant: a provider is ours as soon as the registry knows its name.
is_our_provider_by_name(name, provider_id) == previous_id_of(name) # None

\* ProviderRegistry.is_our_provider
is_our_provider(name, provider_id) ==
    previous_id_of(name) # None /\ previous_id_of(name)[1] = provider_id

pushIdle ==
    /\ push_pc = "idle" /\ provider_name = <<>> /\ provider_prefix = <<>>
    /\ veza_url = "" /\ veza_api_key = ""
    /\ veza_providers = {} /\ veza_next_id = 1
    /\ registry_file = [state |-> "missing", providers |-> <<>>]
    /\ preflight = PreflightResult /\ push_calls = <<>> /\ veza_api = <<>>
    /\ registry_saved = FALSE /\ run_no = 0
    /\ prev_run = [pushed |-> FALSE, saved |-> FALSE, provider_id |-> None]

\* What Veza and the registry may hold before the first run, for the full
\* provider name fn: nothing; a provider of that name that the registry
\* does not know, without or with a data source; such a provider with a
\* registry that records another ID for the name, or the ID under another
\* name, or is unreadable; a provider that the registry records.
WorldInputs(fn) ==
    LET bare == [name |-> fn, id |-> 1, data_sources |-> <<>>]
        full == [name |-> fn, id |-> 1,
                 data_sources |-> <<[name |-> Txt_ext, id |-> 2]>>]
        own == [name |-> fn, id |-> 1,
                data_sources |-> <<[name |-> Txt_Acme, id |-> 2]>>]
        missing == [state |-> "missing", providers |-> <<>>]
        ok(entries) == [state |-> "ok", providers |-> entries]
    IN  { [veza |-> {}, registry |-> missing],
          [veza |-> {}, registry |-> ok(<<[name |-> fn, id |-> 1]>>)],
          [veza |-> {bare}, registry |-> missing],
          [veza |-> {full}, registry |-> missing],
          [veza |-> {full}, registry |-> ok(<<[name |-> fn, id |-> 7]>>)],
          [veza |-> {full}, registry |-> ok(<<[name |-> Txt_Other, id |-> 1]>>)],
          [veza |-> {full}, registry |-> [state |-> "corrupt", providers |-> <<>>]],
          [veza |-> {own}, registry |-> ok(<<[name |-> fn, id |-> 1]>>)],
          [veza |-> {bare}, registry |-> ok(<<[name |-> fn, id |-> 1]>>)] }

\* The state in which execute_veza_push is entered for the first time.
pushInit ==
    /\ push_pc = "preflight"
    /\ \E names \in {<<Txt_M1, <<>> >>, <<Txt_M_1, Txt_P>>} :
          provider_name = names[1] /\ provider_prefix = names[2]
    /\ veza_url = "https://veza" /\ veza_api_key = "key"
    /\ \E w \in WorldInputs(generate_provider_name(provider_name, provider_prefix)) :
          /\ veza_providers = w.veza
          /\ registry_file = w.registry
    /\ veza_next_id = 3
    /\ preflight = PreflightResult /\ push_calls = <<>> /\ veza_api = <<>>
    /\ registry_saved = FALSE /\ run_no = 1
    /\ prev_run = [pushed |-> FALSE, saved |-> FALSE, provider_id |-> None]

full_provider_name == generate_provider_name(provider_name, provider_prefix)

\* PreflightChecker.check(provider_name, dry_run=False), called first by
\* execute_veza_push.  Every Veza call may raise; check catches it.
PushPreflight ==
    /\ push_pc = "preflight"
    /\ push_calls' = push_calls \o <<"check">>
    /\ IF veza_url = "" \/ veza_api_key = ""
       THEN preflight' = PreflightResult /\ UNCHANGED veza_api
       ELSE \E raised \in BOOLEAN, ds_raised \in BOOLEAN :
              LET existing == get_provider(full_provider_name) IN
              IF raised \/ existing = None
              THEN /\ ~ds_raised
                   /\ preflight' = PreflightResult
                   /\ veza_api' = veza_api \o <<"get_provider">>
              ELSE IF is_our_provider(full_provider_name, existing[1].id)
              THEN /\ veza_api' = veza_api \o <<"get_provider", "get_data_sources">>
                   /\ preflight' =
                        [PreflightResult EXCEPT
                           !.override_provider = TRUE,
                           !.existing_provider_id = Some(existing[1].id),
                           !.existing_data_source_id =
                              IF ds_raised \/ existing[1].data_sources = <<>>
                              THEN None
                              ELSE Some(existing[1].data_sources[1].id)]
              ELSE /\ ~ds_raised
                   /\ veza_api' = veza_api \o <<"get_provider">>
                   /\ preflight' =
                        [PreflightResult EXCEPT
                           !.has_conflicts = TRUE,
                           !.conflicts = <<[provider_name |-> full_provider_name,
                                            existing_id |-> existing[1].id]>>]
    /\ push_pc' = "push"
    /\ UNCHANGED <<provider_name, provider_prefix, veza_url, veza_api_key,
                   veza_providers, veza_next_id, registry_file, registry_saved,
                   run_no, prev_run>>

\* Mutant: a known provider is updated in place whatever its data sources.
update_in_place_without_data_source ==
    preflight.override_provider /\ preflight.existing_provider_id # None

\* execute_veza_push, lines 47-48: the branch that pushes by IDs.
update_in_place ==
    /\ preflight.override_provider /\ preflight.existing_provider_id # None
    /\ preflight.existing_data_source_id # None

\* push_application_by_ids(app, provider ID, data source ID); Veza refuses
\* IDs it does not hold.
PushByIds ==
    /\ push_pc = "push" /\ update_in_place
    /\ push_calls' = push_calls \o <<"push_application_by_ids">>
    /\ veza_api' = veza_api \o <<"datasource_push">>
    /\ \E raised \in BOOLEAN :
          push_pc' = IF raised \/ preflight.existing_data_source_id = None
                     THEN "raised" ELSE "save"
    /\ UNCHANGED <<provider_name, provider_prefix, veza_url, veza_api_key,
                   veza_providers, veza_next_id, registry_file, preflight,
                   registry_saved, run_no, prev_run>>

\* ensure_provider(full_provider_name): the provider is looked up and
\* created when Veza has none of that name.
PushEnsureProvider ==
    /\ push_pc = "push" /\ ~update_in_place
    /\ push_calls' = push_calls \o <<"ensure_provider">>
    /\ \E raised \in BOOLEAN, create_raised \in BOOLEAN :
          IF raised
          THEN /\ ~create_raised
               /\ veza_api' = veza_api \o <<"get_provider">>
               /\ push_pc' = "raised"
               /\ UNCHANGED <<veza_providers, veza_next_id>>
          ELSE IF get_provider(full_provider_name) # None
          THEN /\ ~create_raised
               /\ veza_api' = veza_api \o <<"get_provider">>
               /\ push_pc' = "push_name"
               /\ UNCHANGED <<veza_providers, veza_next_id>>
          ELSE /\ veza_api' = veza_api \o <<"get_provider", "create_provider">>
               /\ IF create_raised
                  THEN push_pc' = "raised" /\ UNCHANGED <<veza_providers, veza_next_id>>
                  ELSE /\ veza_providers' = veza_providers \cup
                             {[name |-> full_provider_name, id |-> veza_next_id,
                               data_sources |-> <<>>]}
                       /\ veza_next_id' = veza_next_id + 1
                       /\ push_pc' = "push_name"
    /\ UNCHANGED <<provider_name, provider_prefix, veza_url, veza_api_key,
                   registry_file, preflight, registry_saved, run_no, prev_run>>

\* push_application(app, full_provider_name, company name): the push by
\* name; Veza adds the data source of that name when the provider has none.
PushApplication ==
    /\ push_pc = "push_name"
    /\ push_calls' = push_calls \o <<"push_application">>
    /\ veza_api' = veza_api \o <<"push_application">>
    /\ \E raised \in BOOLEAN :
          LET p == get_provider(full_provider_name)[1] IN
          IF raised
          THEN push_pc' = "raised" /\ UNCHANGED <<veza_providers, veza_next_id>>
          ELSE /\ push_pc' = "save"
               /\ IF \E k \in 1..Len(p.data_sources) : p.data_sources[k].name = Txt_Acme
                  THEN UNCHANGED <<veza_providers, veza_next_id>>
                  ELSE /\ veza_providers' = (veza_providers \ {p}) \cup
                             {[p EXCEPT !.data_sources =
                                  Append(@, [name |-> Txt_Acme, id |-> veza_next_id])]}
                       /\ veza_next_id' = veza_next_id + 1
    /\ UNCHANGED <<provider_name, provider_prefix, veza_url, veza_api_key,
                   registry_file, preflight, registry_saved, run_no, prev_run>>

\* _save_provider_ids: the provider is looked up by name and written to the
\* registry file; any exception is swallowed.
PushSaveProviderIds ==
    /\ push_pc = "save"
    /\ \E raised \in BOOLEAN, save_raised \in BOOLEAN :
          LET provider == get_provider(full_provider_name) IN
          IF raised \/ provider = None
          THEN /\ ~save_raised
               /\ veza_api' = veza_api \o <<"get_provider">>
               /\ UNCHANGED <<registry_file, registry_saved>>
          ELSE /\ veza_api' = veza_api \o <<"get_provider", "get_data_sources">>
               /\ IF save_raised
                  THEN UNCHANGED <<registry_file, registry_saved>>
                  ELSE /\ registry_file' =
                            [state |-> "ok",
                             providers |-> <<[name |-> full_provider_name,
                                              id |-> provider[1].id]>>]
                       /\ registry_saved' = TRUE
    /\ push_pc' = "returned"
    /\ UNCHANGED <<provider_name, provider_prefix, veza_url, veza_api_key,
                   veza_providers, veza_next_id, preflight, push_calls,
                   run_no, prev_run>>

\* The next run of the connector, with the same configuration, enters
\* execute_veza_push.  In between the provider of the full name may have
\* been deleted in Veza, or deleted and created anew by somebody else.
PushNextRun ==
    /\ push_pc \in {"returned", "raised"} /\ run_no < MaxRuns
    /\ prev_run' = [pushed |-> push_pc = "returned",
                    saved |-> registry_saved,
                    provider_id |-> IF registry_saved
                                    THEN Some(registry_file.providers[1].id)
                                    ELSE None]
    /\ \E change \in {"none", "deleted", "recreated"} :
          LET held == {p \in veza_providers : p.name = full_provider_name} IN
          IF change = "none" \/ held = {}
          THEN change = "none" /\ UNCHANGED <<veza_providers, veza_next_id>>
          ELSE /\ veza_providers' = (veza_providers \ held) \cup
                     (IF change = "recreated"
                      THEN {[name |-> full_provider_name, id |-> veza_next_id,
                             data_sources |-> <<>>]}
                      ELSE {})
               /\ veza_next_id' = veza_next_id + 1
    /\ run_no' = run_no + 1
    /\ push_pc' = "preflight"
    /\ preflight' = PreflightResult
    /\ push_calls' = <<>> /\ veza_api' = <<>> /\ registry_saved' = FALSE
    /\ UNCHANGED <<provider_name, provider_prefix, veza_url, veza_api_key, registry_file>>

-----------------------------------------------------------------------------
(* run.py main(), validate_config, OutputManager and the orchestrator's    *)
(* run (connectors/on-prem-graphql, backlog/cloud-graphql, shared)         *)

\* datetime: the proleptic Gregorian ordinal of a date, the second of the
\* day, and the comparison with a datetime some days back.
is_leap(y) == (y % 4 = 0) /\ ((y % 100 # 0) \/ (y % 400 = 0))
days_in_month(y, m) ==
    IF m = 2 THEN (IF is_leap(y) THEN 29 ELSE 28)
    ELSE IF m \in {4, 6, 9, 11} THEN 30 ELSE 31
RECURSIVE days_before_month(_, _)
days_before_month(y, m) ==
    IF m <= 1 THEN 0 ELSE days_before_month(y, m - 1) + days_in_month(y, m - 1)
toordinal(y, m, d) ==
    LET p == y - 1 IN
    p * 365 + (p \div 4) - (p \div 100) + (p \div 400) + days_before_month(y, m) + d
second_of_day(t) == (t.hour * 60 + t.minute) * 60 + t.second
\* a < b - timedelta(days=n), compared by day and second of the day
earlier_than(a, b, n) ==
    LET day_a == toordinal(a.year, a.month, a.day)
        day_b == toordinal(b.year, b.month, b.day) - n
    IN  day_a < day_b \/ (day_a = day_b /\ second_of_day(a) < second_of_day(b))
\* a <= b - timedelta(days=n)
not_later_than(a, b, n) ==
    LET day_a == toordinal(a.year, a.month, a.day)
        day_b == toordinal(b.year, b.month, b.day) - n
    IN  day_a < day_b \/ (day_a = day_b /\ second_of_day(a) <= second_of_day(b))

is_digit(c) == c >= 48 /\ c <= 57
RECURSIVE int(_)
int(s) == IF s = <<>> THEN 0 ELSE int(SubSeq(s, 1, Len(s) - 1)) * 10 + (s[Len(s)] - 48)
\* "%04d" and "%02d"
zfill(n, width) ==
    [i \in 1..width |-> 48 + ((n \div (10 ^ (width - i))) % 10)]

\* re.compile(r'^(\d{8})_(\d{4})_.*$').match(folder_name)
pattern_match(folder_name) ==
    /\ Len(folder_name) >= 14
    /\ \A i \in 1..8 : is_digit(folder_name[i])
    /\ folder_name[9] = 95
    /\ \A i \in 10..13 : is_digit(folder_name[i])
    /\ folder_name[14] = 95
    /\ \A i \in 15..Len(folder_name) : folder_name[i] # 10

\* datetime.strptime(f"{date_str}_{time_str}", "%Y%m%d_%H%M") on a matching
\* name: None stands for ValueError.
strptime(folder_name) ==
    LET y == int(SubSeq(folder_name, 1, 4))
        m == int(SubSeq(folder_name, 5, 6))
        d == int(SubSeq(folder_name, 7, 8))
        hh == int(SubSeq(folder_name, 10, 11))
        mm == int(SubSeq(folder_name, 12, 13))
    IN  IF y >= 1 /\ m >= 1 /\ m <= 12 /\ d >= 1 /\ d <= days_in_month(y, m)
           /\ hh <= 23 /\ mm <= 59
        THEN Some([year |-> y, month |-> m, day |-> d, hour |-> hh, minute |-> mm,
                   second |-> 0])
        ELSE None

\* self._run_timestamp.strftime("%Y%m%d_%H%M") + "_" + safe_provider
folder_name_of(t, name) ==
    zfill(t.year, 4) \o zfill(t.month, 2) \o zfill(t.day, 2) \o <<95>>
    \o zfill(t.hour, 2) \o zfill(t.minute, 2) \o <<95>>
    \o generate_provider_name(name, <<>>)

Dir_old == <<50, 48, 50, 54, 48, 49, 48, 49, 95, 48, 48, 48, 48, 95, 77, 49>>   \* "20260101_0000_M1"
Dir_day_old == <<50, 48, 50, 54, 48, 50, 50, 56, 95, 49, 50, 48, 48, 95, 77, 49>>   \* "20260228_1200_M1"
Dir_recent == <<50, 48, 50, 54, 48, 51, 48, 49, 95, 49, 49, 53, 57, 95, 77, 49>>   \* "20260301_1159_M1"
Dir_bad_date == <<50, 48, 50, 54, 49, 51, 57, 57, 95, 57, 57, 57, 57, 95, 77, 49>>   \* "20261399_9999_M1"
Dir_bare == <<50, 48, 50, 54, 48, 49, 48, 49, 95, 48, 48, 48, 48, 95>>   \* "20260101_0000_"
Dir_short == <<50, 48, 50, 54, 48, 49, 48, 49, 95, 48, 48, 48, 48>>   \* "20260101_0000"
Dir_archive == <<97, 114, 99, 104, 105, 118, 101>>   \* "archive"
Txt_registry == <<111, 97, 97, 95, 112, 114, 111, 118, 105, 100, 101, 114, 95, 105, 100, 115, 46, 106, 115, 111, 110>>   \* "oaa_provider_ids.json"

\* os.listdir(base_dir): the entries of the output base, with the registry
\* file when there is one.
listdir(entries, registry) ==
    entries \cup (IF registry.state = "missing" THEN {}
                  ELSE {[name |-> Txt_registry, is_dir |-> FALSE]})

\* Mutant: a folder as old as the cutoff or older is removed.
to_remove_not_strict(entries, t, retention_days) ==
    IF retention_days <= 0 THEN {}
    ELSE {e \in entries :
            /\ e.is_dir
            /\ pattern_match(e.name)
            /\ strptime(e.name) # None
            /\ not_later_than(strptime(e.name)[1], t, retention_days)}

\* OutputManager.cleanup_old_folders: the entries it hands to shutil.rmtree.
to_remove(entries, t, retention_days) ==
    IF retention_days <= 0 THEN {}
    ELSE {e \in entries :
            /\ e.is_dir
            /\ pattern_match(e.name)
            /\ strptime(e.name) # None
            /\ earlier_than(strptime(e.name)[1], t, retention_days)}

\* GraphQLOrchestrator.validate_config (on-prem GraphQL)
validate_config(c) ==
    /\ c.store_url # "" /\ c.username # "" /\ c.password # ""
    /\ c.ce_mode => (c.admin_username # "" /\ c.admin_password # "")

\* CloudGraphQLOrchestrator.validate_config
cloud_validate_config(c, dry) ==
    /\ c.store_url # "" /\ c.ims_client_id # "" /\ c.ims_client_secret # ""
    /\ ~dry => (veza_url # "" /\ veza_api_key # "")

\* A configuration with every value present: no flag on the command line,
\* DRY_RUN=true in the environment.
BaseConfig ==
    [connector |-> "cloud-graphql", args_dry_run |-> FALSE, args_push |-> FALSE,
     env_DRY_RUN |-> TRUE, store_url |-> "https://store", username |-> "admin",
     password |-> "secret", ims_client_id |-> "id", ims_client_secret |-> "secret",
     ce_mode |-> FALSE, admin_username |-> "", admin_password |-> "",
     env_VEZA_URL |-> "https://veza", env_VEZA_API_KEY |-> "key",
     retention_days |-> 30, save_json |-> TRUE]
OnPremConfig == [BaseConfig EXCEPT !.connector = "on-prem-graphql"]

\* The configurations: from the base one, the modes, then one credential
\* missing at a time in either mode, the CE mode, the retention.
ModeConfigs(c) ==
    {[c EXCEPT !.args_dry_run = a, !.args_push = p, !.env_DRY_RUN = e] :
        a \in BOOLEAN, p \in BOOLEAN, e \in BOOLEAN}
CredentialConfigs(c) ==
    { c,
      [c EXCEPT !.store_url = ""], [c EXCEPT !.username = ""],
      [c EXCEPT !.password = ""], [c EXCEPT !.ims_client_id = ""],
      [c EXCEPT !.ims_client_secret = ""], [c EXCEPT !.env_VEZA_URL = ""],
      [c EXCEPT !.env_VEZA_API_KEY = ""],
      [c EXCEPT !.env_VEZA_URL = "", !.env_VEZA_API_KEY = ""],
      [c EXCEPT !.ce_mode = TRUE],
      [c EXCEPT !.ce_mode = TRUE, !.admin_username = "root"],
      [c EXCEPT !.ce_mode = TRUE, !.admin_username = "root", !.admin_password = "pw"] }
ConfigInputs ==
    ModeConfigs(BaseConfig)
    \cup UNION {CredentialConfigs([c EXCEPT !.env_DRY_RUN = e]) :
                  c \in {BaseConfig, OnPremConfig}, e \in BOOLEAN}
    \cup {[c EXCEPT !.retention_days = r, !.save_json = FALSE] :
            c \in {BaseConfig, OnPremConfig}, r \in {-1, 0, 1}}

\* What the output base may hold, and the two clock readings.
ListingInputs ==
    { {},
      {[name |-> Dir_old, is_dir |-> TRUE], [name |-> Dir_recent, is_dir |-> TRUE]},
      {[name |-> Dir_day_old, is_dir |-> TRUE], [name |-> Dir_archive, is_dir |-> TRUE]},
      {[name |-> Dir_bad_date, is_dir |-> TRUE], [name |-> Dir_old, is_dir |-> FALSE]},
      {[name |-> Dir_bare, is_dir |-> TRUE], [name |-> Dir_short, is_dir |-> TRUE]} }
ClockInputs ==
    {[year |-> 2026, month |-> 3, day |-> 1, hour |-> 12, minute |-> 0, second |-> s] :
        s \in {0, 30}}

mainIdle ==
    /\ main_pc = "idle" /\ cfg = BaseConfig /\ dry_run = None
    /\ clock = [year |-> 2026, month |-> 3, day |-> 1, hour |-> 12, minute |-> 0,
                second |-> 0]
    /\ base_dir = {} /\ listing_before = {} /\ current_dir = None
    /\ config_valid = None /\ steps_done = <<>>
    /\ main_results = [success |-> FALSE, error |-> None]
    /\ exit_code = None

\* The process as main() is entered, with Veza and the registry as a first
\* run or a re-run may find them.
mainInit ==
    /\ main_pc = "init"
    /\ cfg \in ConfigInputs
    /\ dry_run = None
    /\ clock \in ClockInputs
    /\ base_dir \in (IF cfg = BaseConfig \/ cfg.retention_days # 30
                    THEN ListingInputs ELSE {{}})
    /\ listing_before = base_dir
    /\ current_dir = None /\ config_valid = None /\ steps_done = <<>>
    /\ main_results = [success |-> FALSE, error |-> None]
    /\ exit_code = None
    /\ push_pc = "idle"
    /\ provider_name = Txt_M_1 /\ provider_prefix = Txt_P
    /\ veza_url = cfg.env_VEZA_URL /\ veza_api_key = cfg.env_VEZA_API_KEY
    /\ \E w \in {x \in WorldInputs(generate_provider_name(provider_name, provider_prefix)) :
                   \/ x.registry.state = "missing"
                   \/ x.registry.state = "ok" /\ x.veza # {}
                      /\ x.registry.providers[1].id = 1
                      /\ x.registry.providers[1].name # Txt_Other} :
          veza_providers = w.veza /\ registry_file = w.registry
    /\ veza_next_id = 3
    /\ preflight = PreflightResult /\ push_calls = <<>> /\ veza_api = <<>>
    /\ registry_saved = FALSE /\ run_no = 1
    /\ prev_run = [pushed |-> FALSE, saved |-> FALSE, provider_id |-> None]

\* main(): the orchestrator is constructed from the environment and the
\* command line is applied on top: --dry-run first, then --push.
MainConstruct ==
    /\ main_pc = "init"
    /\ dry_run' = IF cfg.connector = "on-prem-graphql" THEN None
                  ELSE IF cfg.args_push THEN Some(FALSE)
                  ELSE IF cfg.args_dry_run THEN Some(TRUE)
                  ELSE Some(cfg.env_DRY_RUN)
    /\ main_pc' = "validate"
    /\ UNCHANGED <<cfg, clock, base_dir, listing_before, current_dir, config_valid,
                   steps_done, main_results, exit_code>>

\* main(): if not orchestrator.validate_config(): sys.exit(1)
MainValidate ==
    /\ main_pc = "validate"
    /\ LET valid == IF cfg.connector = "on-prem-graphql"
                    THEN validate_config(cfg)
                    ELSE cloud_validate_config(cfg, dry_run[1])
       IN  /\ config_valid' = Some(valid)
           /\ IF valid THEN main_pc' = "cleanup" /\ UNCHANGED exit_code
              ELSE main_pc' = "exited" /\ exit_code' = Some(1)
    /\ UNCHANGED <<cfg, dry_run, clock, base_dir, listing_before, current_dir,
                   steps_done, main_results>>

\* main(): cleanup_old_folders when retention_days > 0; a folder whose
\* removal raises OSError stays.
MainCleanup ==
    /\ main_pc = "cleanup"
    /\ IF cfg.retention_days > 0
       THEN \E failed \in SUBSET to_remove(listdir(base_dir, registry_file), clock,
                                          cfg.retention_days) :
              base_dir' = base_dir \ (to_remove(listdir(base_dir, registry_file), clock,
                                                cfg.retention_days) \ failed)
       ELSE UNCHANGED base_dir
    /\ main_pc' = "pipeline"
    /\ UNCHANGED <<cfg, dry_run, clock, listing_before, current_dir, config_valid,
                   steps_done, main_results, exit_code>>

\* run()'s except: the error is recorded, success stays False.
RunAbort(step) ==
    /\ main_results' = [main_results EXCEPT !.error = Some(step)]
    /\ main_pc' = "finish"

\* run(), steps 1 to 6: authentication, extraction, building.  The first
\* step that raises ends the try block.
RunPipeline ==
    /\ main_pc = "pipeline"
    /\ \E n \in 0..6 :
          /\ steps_done' = [i \in 1..n |-> i]
          /\ IF n < 6 THEN RunAbort(n + 1)
             ELSE main_pc' = "mkdir" /\ UNCHANGED main_results
    /\ UNCHANGED <<cfg, dry_run, clock, base_dir, listing_before, current_dir,
                   config_valid, exit_code>>

\* run(): output_manager.create_timestamped_dir()
RunCreateDir ==
    /\ main_pc = "mkdir"
    /\ \E raised \in BOOLEAN :
          IF raised
          THEN RunAbort(7) /\ UNCHANGED <<current_dir, base_dir>>
          ELSE /\ current_dir' = Some(folder_name_of(clock, provider_name))
               /\ base_dir' = base_dir \cup
                     {[name |-> folder_name_of(clock, provider_name), is_dir |-> TRUE]}
               /\ main_pc' = "save"
               /\ UNCHANGED main_results
    /\ UNCHANGED <<cfg, dry_run, clock, listing_before, config_valid, steps_done,
                   exit_code>>

\* run(): the payload is written when save_json is set.
RunSaveJson ==
    /\ main_pc = "save"
    /\ \E raised \in BOOLEAN :
          IF raised /\ cfg.save_json
          THEN RunAbort(7)
          ELSE ~raised /\ main_pc' = "push" /\ UNCHANGED main_results
    /\ UNCHANGED <<cfg, dry_run, clock, base_dir, listing_before, current_dir,
                   config_valid, steps_done, exit_code>>

\* Mutant: the push is entered whatever the mode.
RunPush_whatever_mode ==
    /\ main_pc = "push"
    /\ IF dry_run # None
       THEN main_pc' = "pushing" /\ push_pc' = "preflight"
            /\ UNCHANGED <<steps_done, main_results>>
       ELSE /\ main_pc' = "finish" /\ UNCHANGED push_pc
            /\ steps_done' = Append(steps_done, 7)
            /\ main_results' = [main_results EXCEPT !.success = TRUE]
    /\ UNCHANGED <<cfg, dry_run, clock, base_dir, listing_before, current_dir,
                   config_valid, exit_code>>
    /\ UNCHANGED <<provider_name, provider_prefix, veza_url, veza_api_key,
                   veza_providers, veza_next_id, registry_file, preflight, push_calls,
                   veza_api, registry_saved, run_no, prev_run>>

\* run(): if not self.dry_run: execute_veza_push(...) is entered; else, and
\* in the connector without push, results["success"] = True.
RunPush ==
    /\ main_pc = "push"
    /\ IF dry_run = Some(FALSE)
       THEN main_pc' = "pushing" /\ push_pc' = "preflight"
            /\ UNCHANGED <<steps_done, main_results>>
       ELSE /\ main_pc' = "finish" /\ UNCHANGED push_pc
            /\ steps_done' = Append(steps_done, 7)
            /\ main_results' = [main_results EXCEPT !.success = TRUE]
    /\ UNCHANGED <<cfg, dry_run, clock, base_dir, listing_before, current_dir,
                   config_valid, exit_code>>
    /\ UNCHANGED <<provider_name, provider_prefix, veza_url, veza_api_key,
                   veza_providers, veza_next_id, registry_file, preflight, push_calls,
                   veza_api, registry_saved, run_no, prev_run>>

\* run(): execute_veza_push has returned, results["success"] = True, or it
\* has raised.
RunPushDone ==
    /\ main_pc = "pushing" /\ push_pc \in {"returned", "raised"}
    /\ IF push_pc = "raised" THEN RunAbort(7) /\ UNCHANGED steps_done
       ELSE /\ main_pc' = "finish"
            /\ steps_done' = Append(steps_done, 7)
            /\ main_results' = [main_results EXCEPT !.success = TRUE]
    /\ UNCHANGED <<cfg, dry_run, clock, base_dir, listing_before, current_dir,
                   config_valid, exit_code>>

\* run(): extraction_results.json is written when the output folder exists;
\* an exception here leaves run() and main() and ends the process with 1.
RunFinish ==
    /\ main_pc = "finish"
    /\ \E raised \in BOOLEAN :
          IF raised /\ current_dir # None
          THEN main_pc' = "exited" /\ exit_code' = Some(1)
          ELSE ~raised /\ main_pc' = "summary" /\ UNCHANGED exit_code
    /\ UNCHANGED <<cfg, dry_run, clock, base_dir, listing_before, current_dir,
                   config_valid, steps_done, main_results>>

\* Mutant: the process ends with 0 whatever the results.
MainExit_always_zero ==
    /\ main_pc = "summary"
    /\ exit_code' = Some(0)
    /\ main_pc' = "exited"
    /\ UNCHANGED <<cfg, dry_run, clock, base_dir, listing_before, current_dir,
                   config_valid, steps_done, main_results>>

\* main(): print_summary; if not results.get("success"): sys.exit(1)
MainExit ==
    /\ main_pc = "summary"
    /\ exit_code' = IF main_results.success THEN Some(0) ELSE Some(1)
    /\ main_pc' = "exited"
    /\ UNCHANGED <<cfg, dry_run, clock, base_dir, listing_before, current_dir,
                   config_valid, steps_done, main_results>>

-----------------------------------------------------------------------------
(* CloudRESTClient with its ImsAuthClient (backlog/cloud-rest)             *)

clientIdle ==
    /\ client_pc = "idle" /\ client_token = None /\ client_calls = 0 /\ sent = <<>>

\* CloudRESTClient.__init__: the client holds no token; the ImsAuthClient it
\* is given is new, or holds the token of an earlier get_token.
clientInit ==
    /\ client_pc = "ready" /\ client_token = None /\ client_calls = 0 /\ sent = <<>>
    /\ ims_pc = "ready" /\ now = 0
    /\ \/ ims_token = None /\ ims_expires_at = 0
       \/ ims_token = Some("token-1") /\ ims_expires_at = 120
    /\ ims_response = <<>> /\ ims_result = <<>>
    /\ ims_calls = 0 /\ http_posts = 0 /\ api_status = 0

\* An API method after _ensure_auth: the request goes out with the session's
\* Authorization header; raise_for_status raises on 401, the token stays.
session_get(token) ==
    \E status \in {200, 401} :
        sent' = [token |-> token, at |-> now, expires_at |-> ims_expires_at',
                 status |-> status]

\* An API method, _ensure_auth with self._token set: nothing is asked of the
\* ImsAuthClient and the request is sent.
ClientCallWithToken ==
    /\ client_pc = "ready" /\ client_calls < MaxCalls
    /\ client_token # None
    /\ client_calls' = client_calls + 1
    /\ UNCHANGED imsVars
    /\ session_get(client_token[1])
    /\ UNCHANGED <<client_pc, client_token>>

\* An API method, _ensure_auth without a token: authenticate() calls
\* get_token, which returns its cached token; the request is sent.
ClientCallCached ==
    /\ client_pc = "ready" /\ client_calls < MaxCalls
    /\ client_token = None
    /\ GetTokenCached
    /\ client_calls' = client_calls + 1
    /\ client_token' = Some(ims_token[1])
    /\ session_get(ims_token[1])
    /\ UNCHANGED client_pc

\* An API method, _ensure_auth without a token: authenticate() calls
\* get_token, which sends the token request.
ClientCallRequest ==
    /\ client_pc = "ready" /\ client_calls < MaxCalls
    /\ client_token = None
    /\ GetTokenRequest
    /\ client_calls' = client_calls + 1
    /\ client_pc' = "auth"
    /\ UNCHANGED <<client_token, sent>>

\* get_token returns into authenticate(): the token is kept and the request
\* is sent; or get_token raises and the API method raises with it.
ClientAuthResponse ==
    /\ client_pc = "auth"
    /\ GetTokenResponse
    /\ IF ims_result'.raised
       THEN UNCHANGED <<client_token, sent>>
       ELSE /\ client_token' = Some(ims_result'.token)
            /\ session_get(ims_result'.token)
    /\ client_pc' = "ready"
    /\ UNCHANGED client_calls

-----------------------------------------------------------------------------
(* Specifications                                                          *)

\* The ID codec alone.
InitDecode == decInit /\ gqlIdle /\ restIdle /\ stIdle /\ rghIdle /\ relIdle /\ orcIdle /\ imsIdle /\ pushIdle /\ mainIdle /\ clientIdle
NextDecode ==
    \/ EncodeId /\ UNCHANGED <<gqlVars, restVars, stVars, rghVars, relVars, orcVars, imsVars, pushVars, mainVars, clientVars>>
    \/ DecodeId /\ UNCHANGED <<gqlVars, restVars, stVars, rghVars, relVars, orcVars, imsVars, pushVars, mainVars, clientVars>>
SpecDecode == InitDecode /\ [][NextDecode]_vars

\* The GraphQL extraction alone.
InitGraphQL == decIdle /\ gqlInit /\ restIdle /\ stIdle /\ rghIdle /\ relIdle /\ orcIdle /\ imsIdle /\ pushIdle /\ mainIdle /\ clientIdle
NextGraphQL ==
    \/ GqlBegin /\ UNCHANGED <<decVars, restVars, stVars, rghVars, relVars, orcVars, imsVars, pushVars, mainVars, clientVars>>
    \/ \E item \in ItemInputs : GqlExtractItem(item) /\ UNCHANGED <<decVars, restVars, stVars, rghVars, relVars, orcVars, imsVars, pushVars, mainVars, clientVars>>
    \/ GqlFinish /\ UNCHANGED <<decVars, restVars, stVars, rghVars, relVars, orcVars, imsVars, pushVars, mainVars, clientVars>>
SpecGraphQL == InitGraphQL /\ [][NextGraphQL]_vars

\* The REST extraction alone.
InitREST == decIdle /\ gqlIdle /\ restInit /\ stIdle /\ rghIdle /\ relIdle /\ orcIdle /\ imsIdle /\ pushIdle /\ mainIdle /\ clientIdle
NextREST ==
    \/ RestFlatten /\ UNCHANGED <<decVars, gqlVars, stVars, rghVars, relVars, orcVars, imsVars, pushVars, mainVars, clientVars>>
    \/ RestWalkUsers /\ UNCHANGED <<decVars, gqlVars, stVars, rghVars, relVars, orcVars, imsVars, pushVars, mainVars, clientVars>>
    \/ RestAppendAuth /\ UNCHANGED <<decVars, gqlVars, stVars, rghVars, relVars, orcVars, imsVars, pushVars, mainVars, clientVars>>
    \/ RestTeamsRoles /\ UNCHANGED <<decVars, gqlVars, stVars, rghVars, relVars, orcVars, imsVars, pushVars, mainVars, clientVars>>
    \/ RestFinish /\ UNCHANGED <<decVars, gqlVars, stVars, rghVars, relVars, orcVars, imsVars, pushVars, mainVars, clientVars>>
SpecREST == InitREST /\ [][NextREST]_vars

\* The two user builders on one customer each.
InitStatus == decIdle /\ gqlIdle /\ restIdle /\ stInit /\ rghIdle /\ relIdle /\ orcIdle /\ imsIdle /\ pushIdle /\ mainIdle /\ clientIdle
NextStatus ==
    \/ BuildGraphQLUser /\ UNCHANGED <<decVars, gqlVars, restVars, rghVars, relVars, orcVars, imsVars, pushVars, mainVars, clientVars>>
    \/ BuildRESTUser /\ UNCHANGED <<decVars, gqlVars, restVars, rghVars, relVars, orcVars, imsVars, pushVars, mainVars, clientVars>>
SpecStatus == InitStatus /\ [][NextStatus]_vars

\* The role gap handler alone.
InitRoleGap == decIdle /\ gqlIdle /\ restIdle /\ stIdle /\ rghInit /\ relIdle /\ orcIdle /\ imsIdle /\ pushIdle /\ mainIdle /\ clientIdle
NextRoleGap ==
    \/ RghConstruct /\ UNCHANGED <<decVars, gqlVars, restVars, stVars, relVars, orcVars, imsVars, pushVars, mainVars, clientVars>>
    \/ RghResolve /\ UNCHANGED <<decVars, gqlVars, restVars, stVars, relVars, orcVars, imsVars, pushVars, mainVars, clientVars>>
SpecRoleGap == InitRoleGap /\ [][NextRoleGap]_vars

\* Relationship 6 alone.
InitRelations == decIdle /\ gqlIdle /\ restIdle /\ stIdle /\ rghIdle /\ relInit /\ orcIdle /\ imsIdle /\ pushIdle /\ mainIdle /\ clientIdle
NextRelations ==
    \/ BuildReportsToLink /\ UNCHANGED <<decVars, gqlVars, restVars, stVars, rghVars, orcVars, imsVars, pushVars, mainVars, clientVars>>
    \/ BuildReportsToReturn /\ UNCHANGED <<decVars, gqlVars, restVars, stVars, rghVars, orcVars, imsVars, pushVars, mainVars, clientVars>>
    \/ RestBuildReportsTo /\ UNCHANGED <<decVars, gqlVars, restVars, stVars, rghVars, orcVars, imsVars, pushVars, mainVars, clientVars>>
SpecRelations == InitRelations /\ [][NextRelations]_vars

\* The GraphQL pipeline alone.
InitOrchestrator ==
    decIdle /\ gqlIdle /\ restIdle /\ stIdle /\ rghIdle /\ relIdle /\ orcInit /\ imsIdle /\ pushIdle /\ mainIdle /\ clientIdle
NextOrchestrator ==
    \/ OrcAuthenticate /\ UNCHANGED <<decVars, gqlVars, restVars, stVars, rghVars, relVars, imsVars, pushVars, mainVars, clientVars>>
    \/ OrcGraphQLQuery /\ UNCHANGED <<decVars, gqlVars, restVars, stVars, rghVars, relVars, imsVars, pushVars, mainVars, clientVars>>
    \/ OrcRestSupplement /\ UNCHANGED <<decVars, gqlVars, restVars, stVars, rghVars, relVars, imsVars, pushVars, mainVars, clientVars>>
    \/ OrcBuild /\ UNCHANGED <<decVars, gqlVars, restVars, stVars, rghVars, relVars, imsVars, pushVars, mainVars, clientVars>>
    \/ OrcSave /\ UNCHANGED <<decVars, gqlVars, restVars, stVars, rghVars, relVars, imsVars, pushVars, mainVars, clientVars>>
SpecOrchestrator == InitOrchestrator /\ [][NextOrchestrator]_vars

\* The IMS token client alone.
InitIms ==
    decIdle /\ gqlIdle /\ restIdle /\ stIdle /\ rghIdle /\ relIdle /\ orcIdle /\ imsInit /\ pushIdle /\ mainIdle /\ clientIdle
NextIms ==
    \/ Tick /\ UNCHANGED <<decVars, gqlVars, restVars, stVars, rghVars, relVars, orcVars, pushVars, mainVars, clientVars>>
    \/ GetTokenCached /\ UNCHANGED <<decVars, gqlVars, restVars, stVars, rghVars, relVars, orcVars, pushVars, mainVars, clientVars>>
    \/ GetTokenRequest /\ UNCHANGED <<decVars, gqlVars, restVars, stVars, rghVars, relVars, orcVars, pushVars, mainVars, clientVars>>
    \/ GetTokenResponse /\ UNCHANGED <<decVars, gqlVars, restVars, stVars, rghVars, relVars, orcVars, pushVars, mainVars, clientVars>>
    \/ ApiCall /\ UNCHANGED <<decVars, gqlVars, restVars, stVars, rghVars, relVars, orcVars, pushVars, mainVars, clientVars>>
SpecIms == InitIms /\ [][NextIms]_vars


\* execute_veza_push over consecutive runs.
InitPush ==
    decIdle /\ gqlIdle /\ restIdle /\ stIdle /\ rghIdle /\ relIdle /\ orcIdle /\ imsIdle /\ pushInit /\ mainIdle /\ clientIdle
NextPush ==
    \/ PushPreflight /\ UNCHANGED <<decVars, gqlVars, restVars, stVars, rghVars, relVars, orcVars, imsVars, mainVars, clientVars>>
    \/ PushByIds /\ UNCHANGED <<decVars, gqlVars, restVars, stVars, rghVars, relVars, orcVars, imsVars, mainVars, clientVars>>
    \/ PushEnsureProvider /\ UNCHANGED <<decVars, gqlVars, restVars, stVars, rghVars, relVars, orcVars, imsVars, mainVars, clientVars>>
    \/ PushApplication /\ UNCHANGED <<decVars, gqlVars, restVars, stVars, rghVars, relVars, orcVars, imsVars, mainVars, clientVars>>
    \/ PushSaveProviderIds /\ UNCHANGED <<decVars, gqlVars, restVars, stVars, rghVars, relVars, orcVars, imsVars, mainVars, clientVars>>
    \/ PushNextRun /\ UNCHANGED <<decVars, gqlVars, restVars, stVars, rghVars, relVars, orcVars, imsVars, mainVars, clientVars>>
SpecPush == InitPush /\ [][NextPush]_vars


\* One process of a connector, from main() to its exit.
InitMain ==
    decIdle /\ gqlIdle /\ restIdle /\ stIdle /\ rghIdle /\ relIdle /\ orcIdle /\ imsIdle /\ mainInit /\ clientIdle
NextMain ==
    \/ MainConstruct /\ UNCHANGED <<decVars, gqlVars, restVars, stVars, rghVars, relVars, orcVars, imsVars, pushVars, clientVars>>
    \/ MainValidate /\ UNCHANGED <<decVars, gqlVars, restVars, stVars, rghVars, relVars, orcVars, imsVars, pushVars, clientVars>>
    \/ MainCleanup /\ UNCHANGED <<decVars, gqlVars, restVars, stVars, rghVars, relVars, orcVars, imsVars, pushVars, clientVars>>
    \/ RunPipeline /\ UNCHANGED <<decVars, gqlVars, restVars, stVars, rghVars, relVars, orcVars, imsVars, pushVars, clientVars>>
    \/ RunCreateDir /\ UNCHANGED <<decVars, gqlVars, restVars, stVars, rghVars, relVars, orcVars, imsVars, pushVars, clientVars>>
    \/ RunSaveJson /\ UNCHANGED <<decVars, gqlVars, restVars, stVars, rghVars, relVars, orcVars, imsVars, pushVars, clientVars>>
    \/ RunPush /\ UNCHANGED <<decVars, gqlVars, restVars, stVars, rghVars, relVars, orcVars, imsVars, clientVars>>
    \/ PushPreflight /\ UNCHANGED <<decVars, gqlVars, restVars, stVars, rghVars, relVars, orcVars, imsVars, mainVars, clientVars>>
    \/ PushByIds /\ UNCHANGED <<decVars, gqlVars, restVars, stVars, rghVars, relVars, orcVars, imsVars, mainVars, clientVars>>
    \/ PushEnsureProvider /\ UNCHANGED <<decVars, gqlVars, restVars, stVars, rghVars, relVars, orcVars, imsVars, mainVars, clientVars>>
    \/ PushApplication /\ UNCHANGED <<decVars, gqlVars, restVars, stVars, rghVars, relVars, orcVars, imsVars, mainVars, clientVars>>
    \/ PushSaveProviderIds /\ UNCHANGED <<decVars, gqlVars, restVars, stVars, rghVars, relVars, orcVars, imsVars, mainVars, clientVars>>
    \/ RunPushDone /\ UNCHANGED <<decVars, gqlVars, restVars, stVars, rghVars, relVars, orcVars, imsVars, pushVars, clientVars>>
    \/ RunFinish /\ UNCHANGED <<decVars, gqlVars, restVars, stVars, rghVars, relVars, orcVars, imsVars, pushVars, clientVars>>
    \/ MainExit /\ UNCHANGED <<decVars, gqlVars, restVars, stVars, rghVars, relVars, orcVars, imsVars, pushVars, clientVars>>
SpecMain == InitMain /\ [][NextMain]_vars


\* The Commerce Cloud REST client over a sequence of API calls.
InitClient ==
    decIdle /\ gqlIdle /\ restIdle /\ stIdle /\ rghIdle /\ relIdle /\ orcIdle /\ pushIdle /\ mainIdle /\ clientInit
NextClient ==
    \/ Tick /\ UNCHANGED <<decVars, gqlVars, restVars, stVars, rghVars, relVars, orcVars, pushVars, mainVars, clientVars>>
    \/ ClientCallWithToken /\ UNCHANGED <<decVars, gqlVars, restVars, stVars, rghVars, relVars, orcVars, pushVars, mainVars>>
    \/ ClientCallCached /\ UNCHANGED <<decVars, gqlVars, restVars, stVars, rghVars, relVars, orcVars, pushVars, mainVars>>
    \/ ClientCallRequest /\ UNCHANGED <<decVars, gqlVars, restVars, stVars, rghVars, relVars, orcVars, pushVars, mainVars>>
    \/ ClientAuthResponse /\ UNCHANGED <<decVars, gqlVars, restVars, stVars, rghVars, relVars, orcVars, pushVars, mainVars>>
SpecClient == InitClient /\ [][NextClient]_vars

-----------------------------------------------------------------------------
(* Properties of the GraphQL extraction (SpecGraphQL)                      *)

\* The least element of a non-empty set of indices.
First(S) == CHOOSE i \in S : \A j \in S : i <= j

ItemIdx == 1..Len(structure_items)
IsCustomerItem(i) == structure_items[i].entity.typename = "Customer"
RoleOf(i) == structure_items[i].entity.role
RefersRole(i) == IsCustomerItem(i) /\ RoleOf(i) # None /\ RoleOf(i)[1].id # <<>>
RoleIdOf(i) == decode_graphql_id(RoleOf(i)[1].id)
RoleRefs(rid) == {i \in ItemIdx : RefersRole(i) /\ RoleIdOf(i) = rid}
RoleEntries(rid) ==
    {k \in 1..Len(result[1].roles) :
        /\ result[1].roles[k].id = rid
        /\ result[1].roles[k].company_id = result[1].company.id}

\* C1: for every role id that Customer items refer to, the returned roles
\* hold exactly one entry for (company_id, role_id), and its name is the name
\* on the first item, in input order, that refers to that role id.
C1_RoleDedup ==
    gql_pc = "done" =>
        \A i \in ItemIdx : RefersRole(i) =>
            /\ Cardinality(RoleEntries(RoleIdOf(i))) = 1
            /\ \A k \in RoleEntries(RoleIdOf(i)) :
                  result[1].roles[k].name = RoleOf(First(RoleRefs(RoleIdOf(i))))[1].name

\* Two Customer items refer to one role id under different names, and one
\* role was returned.
C1_Witness ==
    /\ gql_pc = "done"
    /\ \E i, j \in ItemIdx :
          /\ i < j /\ RefersRole(i) /\ RefersRole(j)
          /\ RoleIdOf(i) = RoleIdOf(j)
          /\ RoleOf(i)[1].name # RoleOf(j)[1].name
    /\ Len(result[1].roles) = 1

IsIndexedItem(i) == structure_items[i].entity.typename \in {"Customer", "CompanyTeam"}
IndexedIds == {structure_items[i].id : i \in {j \in ItemIdx : IsIndexedItem(j)}}
RawLinkIdx == {i \in ItemIdx : structure_items[i].parent_id # ""}
ResolvableIdx ==
    {i \in RawLinkIdx : /\ structure_items[i].id \in IndexedIds
                        /\ structure_items[i].parent_id \in IndexedIds}
\* The item the index holds for sid: the last indexed item with that id.
IndexedItem(sid) ==
    structure_items[CHOOSE i \in ItemIdx :
        /\ IsIndexedItem(i) /\ structure_items[i].id = sid
        /\ \A j \in ItemIdx : (IsIndexedItem(j) /\ structure_items[j].id = sid) => j <= i]
LinkRank(i) == Cardinality({j \in ResolvableIdx : j <= i})

\* C2: the returned hierarchy holds one link for every raw link whose child
\* and parent ids are both indexed, in input order and with the indexed
\* entities' types, and nothing for any other raw link.
C2_HierarchyResolution ==
    gql_pc = "done" =>
        /\ Len(result[1].hierarchy) = Cardinality(ResolvableIdx)
        /\ \A i \in ResolvableIdx :
              LET link == result[1].hierarchy[LinkRank(i)]
                  child == IndexedItem(structure_items[i].id)
                  parent == IndexedItem(structure_items[i].parent_id)
              IN /\ link.child_type = child.entity.typename
                 /\ link.parent_type = parent.entity.typename
                 /\ link.child_type = "Customer" => link.child_entity.email = child.entity.email
                 /\ link.parent_type = "Customer" => link.parent_entity.email = parent.entity.email

\* Two raw links, one of them unresolvable: one link is returned.
C2_Witness ==
    /\ gql_pc = "done"
    /\ Cardinality(RawLinkIdx) = 2
    /\ Cardinality(ResolvableIdx) = 1
    /\ Len(result[1].hierarchy) = 1

\* C3: no two users returned by one extraction share an email.
C3_UniqueEmails ==
    gql_pc = "done" =>
        \A i, j \in 1..Len(result[1].users) :
            i # j => result[1].users[i].email # result[1].users[j].email

ToUpper(c) == IF c >= 97 /\ c <= 122 THEN c - 32 ELSE c
SameIgnoringCase(a, b) ==
    /\ Len(a) = Len(b)
    /\ \A i \in 1..Len(a) : ToUpper(a[i]) = ToUpper(b[i])
CustomerIdx == {i \in ItemIdx : IsCustomerItem(i)}
CustomerRank(i) == Cardinality({j \in CustomerIdx : j <= i})

\* C8: the user of every Customer item is flagged is_company_admin exactly
\* when company_admin.email is non-empty and equals the user's email up to
\* case; company "MQ==" with the one Customer admin@acme.com and
\* company_admin.email admin@acme.com gives an admin user and company id "1".
C8_AdminDetection ==
    gql_pc = "done" =>
        /\ Len(result[1].users) = Cardinality(CustomerIdx)
        /\ \A i \in CustomerIdx :
              LET u == result[1].users[CustomerRank(i)] IN
              /\ u.email = structure_items[i].entity.email
              /\ u.is_company_admin <=>
                    /\ company_data.company_admin_email # <<>>
                    /\ SameIgnoringCase(u.email, company_data.company_admin_email)
        /\ ( /\ company_data.id = Txt_MQ
             /\ company_data.company_admin_email = Txt_admin_acme
             /\ Len(structure_items) = 1
             /\ IsCustomerItem(1)
             /\ structure_items[1].entity.email = Txt_admin_acme )
           => /\ result[1].users[1].is_company_admin
              /\ result[1].company.id = Txt_1

\* A user is the admin although its email differs in case from
\* company_admin.email.
C8_Witness ==
    /\ gql_pc = "done"
    /\ \E k \in 1..Len(result[1].users) :
          /\ result[1].users[k].is_company_admin
          /\ result[1].users[k].email # company_data.company_admin_email

-----------------------------------------------------------------------------
(* Properties of the two user builders (SpecStatus)                        *)

\* C5: with the status field absent the GraphQL user is active, with
\* company_attributes.status absent the REST user is inactive.
C5_StatusDefaults ==
    /\ (st_gql_user # <<>> /\ st_entity.status = "") => st_gql_user[1].is_active = TRUE
    /\ (st_rest_user # <<>> /\ st_customer.status = None) => st_rest_user[1].is_active = FALSE

\* Both builders ran on a customer without status.
C5_Witness ==
    /\ st_gql_user # <<>> /\ st_entity.status = ""
    /\ st_rest_user # <<>> /\ st_customer.status = None
    /\ st_gql_user[1].is_active /\ ~st_rest_user[1].is_active

-----------------------------------------------------------------------------
(* Properties of the ID codec (SpecDecode)                                 *)

\* C6: decoding the encoding of a number n returns str(n).
C6_DecodeEncode ==
    (dec_pc = "done" /\ dec_n # None) =>
        dec_output = [raised |-> FALSE, value |-> str(dec_n[1])]

\* A three-digit ID (an unpadded encoding) came back.
C6_Witness ==
    /\ dec_pc = "done" /\ dec_n # None /\ dec_n[1] > 99
    /\ dec_output.value = str(dec_n[1])

IsB64Char(c) == (c >= 65 /\ c <= 90) \/ (c >= 97 /\ c <= 122) \/ (c >= 48 /\ c <= 57)
                \/ c = 43 \/ c = 47
\* RFC 4648 base64: a multiple of four alphabet characters, the last one or
\* two of which may be "=".
IsValidBase64(s) ==
    /\ Len(s) % 4 = 0
    /\ \A i \in 1..Len(s) :
          \/ IsB64Char(s[i])
          \/ s[i] = 61 /\ i >= Len(s) - 1 /\ s[Len(s)] = 61

DataCount(s) == Cardinality({i \in 1..Len(s) : IsB64Char(s[i])})
\* Some "=" completes a quad: it follows 4k+3 alphabet characters, or
\* 4k+2 alphabet characters and another "=" (other characters skipped).
HasCompletingPad(s) ==
    \E j \in 1..Len(s) :
        /\ s[j] = 61
        /\ \/ DataCount(SubSeq(s, 1, j - 1)) % 4 = 3
           \/ /\ DataCount(SubSeq(s, 1, j - 1)) % 4 = 2
              /\ \E i \in 1..(j - 1) :
                    /\ s[i] = 61
                    /\ DataCount(SubSeq(s, 1, i - 1)) = DataCount(SubSeq(s, 1, j - 1))
\* What the lenient decoder rejects: a character that is not ASCII, or
\* alphabet characters that do not fill their last quad, with no "=" that
\* completes it.
LenientRejects(s) ==
    \/ \E i \in 1..Len(s) : s[i] > 127
    \/ ~HasCompletingPad(s) /\ DataCount(s) % 4 # 0

-----------------------------------------------------------------------------
(* Properties of the REST extraction (SpecREST)                            *)

Txt_None == <<78, 111, 110, 101>>                          \* "None"
\* "{entity_id}" inside an f-string: str() of an integer or of None.
FormatId(o) == IF o = None THEN Txt_None ELSE str(o[1])

NodeIdx == 1..Len(flat_nodes)
IsCustomerNode(i) == flat_nodes[i].entity_type = "customer"
\* The users of the result that came from node i of the walk.
UsersOfNode(i) ==
    {k \in 1..Len(rest_result[1].users) :
        /\ "_structure_id" \in DOMAIN rest_result[1].users[k]
        /\ rest_result[1].users[k]._structure_id = flat_nodes[i].structure_id}
IsPlaceholderFor(u, entity_id) ==
    /\ u.email = Txt_customer_ \o FormatId(entity_id) \o Txt_at_unknown
    /\ u.firstname = ""
    /\ u.lastname = ""

\* C4 as stated: every customer node whose entity_id is not the
\* authenticated user's id yields the placeholder customer_{entity_id}@unknown
\* with empty names.
C4_PlaceholderEveryNode ==
    rest_pc = "done" =>
        \A i \in NodeIdx :
            (IsCustomerNode(i) /\ flat_nodes[i].entity_id # current_user.id) =>
                \E k \in UsersOfNode(i) :
                    IsPlaceholderFor(rest_result[1].users[k], flat_nodes[i].entity_id)

\* C4 amended: every customer node with a non-empty entity_id that is not
\* the authenticated user's id yields exactly one user, the placeholder
\* customer_{entity_id}@unknown with empty names.
C4_PlaceholderNonEmptyId ==
    rest_pc = "done" =>
        \A i \in NodeIdx :
            ( /\ IsCustomerNode(i)
              /\ Truthy(flat_nodes[i].entity_id)
              /\ flat_nodes[i].entity_id # current_user.id ) =>
                /\ Cardinality(UsersOfNode(i)) = 1
                /\ \A k \in UsersOfNode(i) :
                      IsPlaceholderFor(rest_result[1].users[k], flat_nodes[i].entity_id)

\* The tree holds the authenticated user and another customer, who got a
\* placeholder.
C4_Witness ==
    /\ rest_pc = "done"
    /\ \E i, j \in NodeIdx :
          /\ IsCustomerNode(i) /\ flat_nodes[i].entity_id = current_user.id
          /\ IsCustomerNode(j) /\ Truthy(flat_nodes[j].entity_id)
          /\ flat_nodes[j].entity_id # current_user.id
          /\ \E k \in UsersOfNode(j) :
                IsPlaceholderFor(rest_result[1].users[k], flat_nodes[j].entity_id)

SuperUserId == rest_company.super_user_id
\* The user's numeric customer id is super_user_id.
HasSuperUserId(u) == SuperUserId # None /\ u.magento_customer_id = str(SuperUserId[1])

\* C9: a user is flagged is_company_admin exactly when super_user_id is set
\* and is the user's customer id; admin_email is the email of the user whose
\* customer id is super_user_id, and empty when super_user_id is not set.
C9_AdminBySuperUserId ==
    rest_pc = "done" =>
        /\ \A k \in 1..Len(rest_result[1].users) :
              LET u == rest_result[1].users[k] IN
              /\ u.is_company_admin <=> HasSuperUserId(u)
              /\ HasSuperUserId(u) => rest_result[1].admin_email = u.email
        /\ SuperUserId = None => rest_result[1].admin_email = <<>>

\* An admin was found among several users and admin_email is its email.
C9_Witness ==
    /\ rest_pc = "done"
    /\ \E k, m \in 1..Len(rest_result[1].users) :
          /\ rest_result[1].users[k].is_company_admin
          /\ rest_result[1].admin_email = rest_result[1].users[k].email
          /\ rest_result[1].admin_email # <<>>
          /\ k > 1
          /\ ~rest_result[1].users[m].is_company_admin

\* The authenticated user is a customer node of the tree.
AuthInTree ==
    \E i \in NodeIdx :
        /\ IsCustomerNode(i) /\ Truthy(flat_nodes[i].entity_id)
        /\ flat_nodes[i].entity_id = current_user.id
\* How many users the tree walk gives: one per customer node with an id.
WalkCount == Cardinality({i \in NodeIdx : IsCustomerNode(i) /\ Truthy(flat_nodes[i].entity_id)})
\* u is the full record built from current_user.
IsFullRecord(u) ==
    /\ u.email = current_user.email
    /\ u.firstname = current_user.firstname
    /\ u.lastname = current_user.lastname
    /\ u.job_title = current_user.job_title
    /\ u.magento_customer_id = StrOrEmpty(current_user.id)
FullRecords ==
    {k \in 1..Len(rest_result[1].users) : IsFullRecord(rest_result[1].users[k])}
AppendedLast ==
    /\ Len(rest_result[1].users) = WalkCount + 1
    /\ FullRecords = {WalkCount + 1}
    /\ "_structure_id" \notin DOMAIN rest_result[1].users[WalkCount + 1]

\* C10 as stated: when the authenticated user is no customer node of the
\* tree, exactly one full record of current_user is in the users, after all
\* users of the walk; when it is a node, nothing is appended.
C10_AuthAlwaysPresent ==
    rest_pc = "done" =>
        /\ ~AuthInTree => AppendedLast
        /\ AuthInTree => Len(rest_result[1].users) = WalkCount

\* current_user's email is non-empty and no user of the walk carries it.
AuthEmailFree ==
    /\ current_user.email # <<>>
    /\ \A k \in 1..WalkCount : rest_result[1].users[k].email # current_user.email

\* C10 amended: when the authenticated user is no customer node of the
\* tree, the full record of current_user is appended after the users of the
\* walk if current_user's email is non-empty and no user of the walk carries
\* it, and nothing is appended otherwise; when it is a node, nothing is
\* appended.
C10_AuthAppendedByEmail ==
    rest_pc = "done" =>
        /\ (~AuthInTree /\ AuthEmailFree) => AppendedLast
        /\ (~AuthInTree /\ ~AuthEmailFree) => Len(rest_result[1].users) = WalkCount
        /\ AuthInTree => Len(rest_result[1].users) = WalkCount

\* The tree holds customers but not the authenticated user, who was appended.
C10_Witness ==
    /\ rest_pc = "done"
    /\ ~AuthInTree /\ AuthEmailFree
    /\ WalkCount >= 2
    /\ AppendedLast


-----------------------------------------------------------------------------
(* C11: REST hierarchy links                                               *)

RestLinks == rest_result[1].hierarchy
HasParentNode(i) ==
    \E j \in NodeIdx : flat_nodes[j].structure_id = flat_nodes[i].structure_parent_id
ParentNode(i) ==
    flat_nodes[CHOOSE j \in NodeIdx :
                   flat_nodes[j].structure_id = flat_nodes[i].structure_parent_id]
LinksOfNode(i) == {k \in 1..Len(RestLinks) : RestLinks[k].child_entity = flat_nodes[i]}
LinkedNodes == {i \in NodeIdx : HasParentNode(i)}
\* One link per node that has its parent among the flattened nodes, none for
\* another node, each link carrying the node and its parent.
OneLinkPerResolvableNode ==
    /\ Len(RestLinks) = Cardinality(LinkedNodes)
    /\ \A i \in NodeIdx :
          IF HasParentNode(i)
          THEN /\ Cardinality(LinksOfNode(i)) = 1
               /\ \A k \in LinksOfNode(i) : RestLinks[k].parent_entity = ParentNode(i)
          ELSE LinksOfNode(i) = {}

-----------------------------------------------------------------------------
(* C12: the REST scenario customer 10 > team 1 > customer 11               *)

ScenarioTree ==
    [attrs |-> <<Some(10), "customer">>,
     children |-> <<[attrs |-> <<Some(1), "team">>,
                     children |-> <<[attrs |-> <<Some(11), "customer">>,
                                     children |-> <<>>]>>]>>]
InScenario == rest_hierarchy = Numbered(ScenarioTree, 1, 0) /\ current_user.id = Some(10)
CustomerUnderTeamLinks ==
    {k \in 1..Len(RestLinks) :
        RestLinks[k].child_type = "Customer" /\ RestLinks[k].parent_type = "CompanyTeam"}

\* C12: on the hierarchy customer 10 (the authenticated user) > team 1 >
\* customer 11, extraction yields exactly 1 team, exactly 2 users, the full
\* record of customer 10 and the placeholder customer_11@unknown, and exactly
\* one hierarchy link with child_type "Customer" and parent_type "CompanyTeam".
C12_Scenario ==
    (rest_pc = "done" /\ InScenario) =>
        /\ Len(rest_result[1].teams) = 1
        /\ rest_result[1].teams[1].id = str(1)
        /\ Len(rest_result[1].users) = 2
        /\ IsFullRecord(rest_result[1].users[1])
        /\ rest_result[1].users[1].magento_customer_id = str(10)
        /\ rest_result[1].users[2].email = Txt_customer_11_unknown
        /\ IsPlaceholderFor(rest_result[1].users[2], Some(11))
        /\ Cardinality(CustomerUnderTeamLinks) = 1
        /\ \A k \in CustomerUnderTeamLinks :
              /\ RestLinks[k].child_entity.entity_id = Some(11)
              /\ RestLinks[k].parent_entity.entity_id = Some(1)

\* The scenario was extracted for the caller "me@x".
C12_Witness ==
    /\ rest_pc = "done" /\ InScenario
    /\ current_user.email = Txt_me_x
    /\ Len(rest_result[1].users) = 2
    /\ Len(RestLinks) = 2

-----------------------------------------------------------------------------
(* C13..C17: RoleGapHandler                                                *)

RghIdx == 1..Len(rgh_users_arg)
Resolved(strategy) ==
    rgh_pc = "done" /\ rgh_handler[1].strategy = strategy
HadRole(i) == rgh_users_arg[i].role_id # None
HasRole(i, role) ==
    /\ rgh_users[i].role_id = Some(role.id)
    /\ rgh_users[i].role_name = Some(role.name)
\* The user is as before, but for the role.
SameButRole(i) ==
    /\ rgh_users[i].email = rgh_users_arg[i].email
    /\ rgh_users[i].is_company_admin = rgh_users_arg[i].is_company_admin

\* C13: after resolve under strategy skip every user has role_id None and
\* role_name None, whatever role the user held before the call.
C13_SkipClearsRoles ==
    Resolved("skip") =>
        /\ Len(rgh_users) = Len(rgh_users_arg)
        /\ \A i \in RghIdx :
              /\ rgh_users[i].role_id = None
              /\ rgh_users[i].role_name = None
              /\ SameButRole(i)

\* skip has run on users of whom one entered with a real role_id.
C13_Witness ==
    /\ Resolved("skip")
    /\ \E i \in RghIdx : HadRole(i) /\ rgh_users[i].role_id = None

AdminRoleIdx == {k \in 1..Len(rgh_roles) : contains(Txt_admin, lower(rgh_roles[k].name))}
LiteralDefaultIdx == {k \in 1..Len(rgh_roles) : rgh_roles[k].name = Txt_Default_User}
AnyCaseDefaultIdx ==
    {k \in 1..Len(rgh_roles) : SameIgnoringCase(rgh_roles[k].name, Txt_Default_User)}
Min(S) == CHOOSE k \in S : \A m \in S : k <= m
\* default_role's outcome when the default role is looked up in DefaultIdx.
DefaultRoleOutcome(DefaultIdx) ==
    /\ Len(rgh_users) = Len(rgh_users_arg)
    /\ \A i \in RghIdx :
          IF HadRole(i) THEN rgh_users[i] = rgh_users_arg[i]
          ELSE /\ SameButRole(i)
               /\ IF rgh_users_arg[i].is_company_admin
                  THEN AdminRoleIdx # {} => HasRole(i, rgh_roles[Min(AdminRoleIdx)])
                  ELSE IF DefaultIdx # {} THEN HasRole(i, rgh_roles[Min(DefaultIdx)])
                  ELSE rgh_roles # <<>> => HasRole(i, rgh_roles[1])

\* C14 (as stated): under default_role a user that has a role is untouched;
\* of the others an admin gets the role whose name contains "admin" whatever
\* the case, and a non-admin gets the role named "Default User" to the
\* letter, or the first role of the list when no role is so named.
C14_LiteralDefaultUser ==
    Resolved("default_role") => DefaultRoleOutcome(LiteralDefaultIdx)

\* C14 (amended): under default_role a user that has a role is untouched; of
\* the others an admin gets the first role whose name contains "admin"
\* whatever the case, and a non-admin gets the first role whose name is
\* "Default User" whatever the case ("default user" too), or the first role
\* of the list when no role is so named.
C14_DefaultRole ==
    Resolved("default_role") => DefaultRoleOutcome(AnyCaseDefaultIdx)

\* default_role has run with a role named "default user" that is not the
\* first of the list, and a non-admin without a role received it.
C14_Witness ==
    /\ Resolved("default_role")
    /\ LiteralDefaultIdx = {} /\ AnyCaseDefaultIdx = {2}
    /\ \E i \in RghIdx :
          /\ ~HadRole(i) /\ ~rgh_users_arg[i].is_company_admin
          /\ HasRole(i, rgh_roles[2])
    /\ \E i \in RghIdx : HadRole(i) /\ rgh_users[i] = rgh_users_arg[i]

\* C15: under default_role, whenever the roles list is non-empty, every
\* user, admin or not, has a role_id after resolve.
C15_EveryUserAssigned ==
    (Resolved("default_role") /\ rgh_roles # <<>>) =>
        \A i \in RghIdx : rgh_users[i].role_id # None

\* The valid row of the CSV that decides for user i: the last row with both
\* fields whose email is the user's, blanks and case aside.
RowsFor(i) ==
    {k \in 1..Len(rgh_csv.rows) :
        /\ strip(rgh_csv.rows[k].email) # <<>>
        /\ strip(rgh_csv.rows[k].role_name) # <<>>
        /\ SameIgnoringCase(strip(rgh_csv.rows[k].email), rgh_users_arg[i].email)}
Max(S) == CHOOSE k \in S : \A m \in S : k >= m
CsvRoleName(i) == strip(rgh_csv.rows[Max(RowsFor(i))].role_name)
FallsBack ==
    (Resolved("csv_supplement") /\ rgh_csv.state # "readable") =>
        rgh_users = _resolve_default_role(rgh_users_arg, rgh_roles)

\* C16 (as stated): under csv_supplement with a readable CSV a user without a
\* role receives role r exactly when the CSV maps the user's email, case
\* aside, to r's name, and keeps role_id None when the CSV's role name is no
\* role's name; with a missing or unreadable CSV resolve returns what
\* default_role returns.
C16_CsvExactRoleName ==
    /\ (Resolved("csv_supplement") /\ rgh_csv.state = "readable") =>
          \A i \in RghIdx : ~HadRole(i) =>
              /\ \A k \in 1..Len(rgh_roles) :
                    HasRole(i, rgh_roles[k])
                       <=> (RowsFor(i) # {} /\ CsvRoleName(i) = rgh_roles[k].name)
              /\ (~\E k \in 1..Len(rgh_roles) : HasRole(i, rgh_roles[k]))
                    => rgh_users[i].role_id = None
    /\ FallsBack

\* C16 (amended): under csv_supplement with a readable CSV a user without a
\* role receives role r exactly when the CSV maps the user's email, case
\* aside, to a name that is r's name, case aside as well ("PURCHASER" gives
\* the role "Purchaser"), and keeps role_id None when the CSV's role name is
\* no role's name; with a missing or unreadable CSV resolve returns what
\* default_role returns.
C16_CsvSupplement ==
    /\ (Resolved("csv_supplement") /\ rgh_csv.state = "readable") =>
          \A i \in RghIdx : ~HadRole(i) =>
              /\ \A k \in 1..Len(rgh_roles) :
                    HasRole(i, rgh_roles[k])
                       <=> (RowsFor(i) # {}
                            /\ SameIgnoringCase(CsvRoleName(i), rgh_roles[k].name))
              /\ (~\E k \in 1..Len(rgh_roles) : HasRole(i, rgh_roles[k]))
                    => rgh_users[i].role_id = None
    /\ FallsBack

\* csv_supplement has run on a readable CSV whose row " a@x ", "PURCHASER"
\* gave the admin "A@x" the role "Purchaser".
C16_Witness ==
    /\ Resolved("csv_supplement") /\ rgh_csv.state = "readable"
    /\ \E i \in RghIdx :
          /\ ~HadRole(i)
          /\ rgh_users_arg[i].email = Txt_A_x
          /\ RowsFor(i) # {} /\ CsvRoleName(i) = Txt_PURCHASER
          /\ rgh_users[i].role_name = Some(Txt_Purchaser)

\* C17: constructing the handler with a strategy outside STRATEGIES raises an
\* error that carries the invalid value, no handler exists and resolve never
\* runs: the users and roles are as they were; a strategy of STRATEGIES
\* raises nothing.
C17_InvalidStrategyFailsFast ==
    /\ (rgh_strategy_arg \notin STRATEGIES /\ rgh_pc \notin {"idle", "start"}) =>
          /\ rgh_pc = "failed"
          /\ rgh_raised # None
          /\ rgh_raised[1].type = "ValueError"
          /\ rgh_raised[1].message[2] = rgh_strategy_arg
          /\ rgh_handler = None
          /\ rgh_users = rgh_users_arg
    /\ rgh_strategy_arg \in STRATEGIES => rgh_raised = None /\ rgh_pc # "failed"

\* "bogus_strategy" was refused with users at hand.
C17_Witness ==
    /\ rgh_pc = "failed"
    /\ rgh_strategy_arg = "bogus_strategy"
    /\ rgh_users_arg # <<>> /\ rgh_roles # <<>>

-----------------------------------------------------------------------------
(* C18: reports_to                                                         *)

IsCustomerLink(k) ==
    rel_hierarchy[k].child_type = "Customer" /\ rel_hierarchy[k].parent_type = "Customer"
LinksAsChild(e) ==
    {k \in 1..Len(rel_hierarchy) :
        rel_hierarchy[k].child_type = "Customer"
        /\ get_email(rel_hierarchy[k].child_entity) = e}

\* C18: a user's reports_to is set only from a link, already gone through,
\* whose child_type and parent_type are both "Customer" (the child being the
\* user, the parent the value); a user whose parent in every link is a
\* team has no reports_to; the REST builder sets none at all.
C18_ReportsToOnlyCustomerLinks ==
    /\ \A e \in DOMAIN local_users :
          /\ local_users[e] # None =>
                \E k \in 1..rel_i :
                    /\ IsCustomerLink(k)
                    /\ get_email(rel_hierarchy[k].child_entity) = e
                    /\ get_email(rel_hierarchy[k].parent_entity) = local_users[e][1]
          /\ (\A k \in LinksAsChild(e) : rel_hierarchy[k].parent_type = "CompanyTeam")
                => local_users[e] = None
    /\ rel_i = 0 => \A e \in DOMAIN local_users : local_users[e] = None

\* The GraphQL builder is through: "a@x", whose parent is the team, has no
\* reports_to, and "b@x", whose parent is the customer "a@x", reports to it.
C18_Witness ==
    /\ rel_pc = "done" /\ rel_i = 2
    /\ LinksAsChild("a@x") # {}
    /\ \A k \in LinksAsChild("a@x") : rel_hierarchy[k].parent_type = "CompanyTeam"
    /\ local_users["a@x"] = None
    /\ local_users["b@x"] = Some("a@x")

-----------------------------------------------------------------------------
(* C19: the optional REST role supplement                                  *)

Warned(w) == \E k \in 1..Len(orc_warnings) : orc_warnings[k] = w
SupplementFailed == Warned("Warning: REST role supplement failed")

\* C19: a failure of the REST role supplement is a warning and no error: the
\* run goes on with rest_roles None and creates no role -> permission link,
\* and no run ever returns the supplement's failure as its error; a failure
\* of the GraphQL query ends the run without success, before any supplement.
C19_SupplementFailureDowngraded ==
    /\ SupplementFailed =>
          /\ Warned("Continuing without explicit permission data")
          /\ orc_rest_roles = None
          /\ role_permissions = {}
          /\ orc_pc \in {"build", "save", "returned"}
          /\ results.error \in {None, Some("build"), Some("save")}
    /\ results.error # Some("get_company_roles_rest")
    /\ results.error = Some("execute_graphql") =>
          /\ orc_pc = "returned" /\ ~results.success
          /\ orc_rest_roles = None /\ orc_warnings = <<>> /\ role_permissions = {}
    /\ results.success => results.error = None /\ orc_pc = "returned"

\* A run whose supplement failed has returned with success and without any
\* role -> permission link.
C19_Witness ==
    /\ orc_pc = "returned" /\ results.success
    /\ use_rest_supplement /\ SupplementFailed
    /\ orc_rest_roles = None /\ role_permissions = {}

-----------------------------------------------------------------------------
(* C20: the token cache of ImsAuthClient                                   *)

\* A step that enters get_token.
CallStarts == ims_pc = "ready" /\ ims_calls' = ims_calls + 1

\* The step returns the cached token, sends nothing and leaves the cache.
ReturnsCached ==
    /\ ims_token # None
    /\ ims_pc' = "ready" /\ http_posts' = http_posts
    /\ ims_result' = [raised |-> FALSE, token |-> ims_token[1]]
    /\ UNCHANGED <<ims_token, ims_expires_at>>

\* The step sends exactly one token request.
SendsOneRequest == ims_pc' = "requesting" /\ http_posts' = http_posts + 1

\* A step in which the answer to the token request is processed.
RequestEnds == ims_pc = "requesting" /\ ims_pc' = "ready"

\* The step stores and returns the token of the answer, with the expiry
\* counted from the time the answer is processed.
ReplacesCache ==
    /\ ims_token' = Some(ims_response'.access_token)
    /\ ims_expires_at' = now + expires_in_of(ims_response')
    /\ ims_result' = [raised |-> FALSE, token |-> ims_response'.access_token]

\* The cache is written by nothing but the processing of a token answer; in
\* particular an API call, answered 401 or not, leaves it alone.
OnlyTimeInvalidates ==
    /\ ~RequestEnds => UNCHANGED <<ims_token, ims_expires_at>>
    /\ api_status' # api_status => UNCHANGED <<ims_token, ims_expires_at, ims_calls, http_posts>>

CacheHitExactlyWhenFresh ==
    CallStarts => IF ims_token # None /\ now < ims_expires_at - 60
                  THEN ReturnsCached
                  ELSE SendsOneRequest /\ UNCHANGED <<ims_token, ims_expires_at>>

\* C20 as stated: get_token returns the cached token without a request
\* exactly when a token is cached and now < expiry - 60; in every other case
\* it sends one token request and replaces the cached token and expiry;
\* nothing but the passage of time invalidates the cache.
C20_AlwaysReplaces ==
    [][/\ CacheHitExactlyWhenFresh
       /\ RequestEnds => ReplacesCache
       /\ OnlyTimeInvalidates]_vars

\* C20, amended: as above, but the cache is replaced only when the token
\* request succeeds (expires_in counting as 3600 when the answer has none);
\* when the request fails get_token raises and the cached token and expiry
\* stay as they were.
C20_TokenCache ==
    [][/\ CacheHitExactlyWhenFresh
       /\ RequestEnds =>
            IF ims_response'.ok
            THEN ReplacesCache
            ELSE /\ ims_result' = [raised |-> TRUE, token |-> ""]
                 /\ UNCHANGED <<ims_token, ims_expires_at>>
       /\ OnlyTimeInvalidates]_vars

\* A token was fetched, an API call was answered 401, the next call still
\* got the cached token, and a call after the margin fetched a new one.
C20_Witness ==
    /\ ims_pc = "ready" /\ ims_calls = 3 /\ http_posts = 2
    /\ api_status = 401 /\ now = 60
    /\ ims_response # <<>> /\ ims_response.ok
    /\ ims_token = Some(ims_response.access_token)
    /\ ims_expires_at = 60 + expires_in_of(ims_response)

-----------------------------------------------------------------------------
(* C21, C22, C26: create or update, re-push, conflicts (SpecPush)          *)

IsPrefix(s, t) == Len(s) <= Len(t) /\ \A k \in 1..Len(s) : s[k] = t[k]
Called(log, call) == \E k \in 1..Len(log) : log[k] = call
Count(log, call) == Cardinality({k \in 1..Len(log) : log[k] = call})

\* Preflight reported override_provider with both IDs.
ReportsBothIds ==
    /\ preflight.override_provider
    /\ preflight.existing_provider_id # None
    /\ preflight.existing_data_source_id # None

CallsById == <<"check", "push_application_by_ids">>
CallsByName == <<"check", "ensure_provider", "push_application">>

\* C21: execute_veza_push first runs the preflight check, then pushes by IDs
\* (neither ensure_provider nor push_application) exactly when preflight
\* reported override_provider with a provider ID and a data-source ID, and
\* otherwise calls ensure_provider and then push_application; a call that
\* raises ends the sequence.
C21_CreateVsUpdate ==
    LET expected == IF ReportsBothIds THEN CallsById ELSE CallsByName IN
    /\ push_pc \in {"idle", "preflight"} => push_calls = <<>>
    /\ push_pc \in {"push", "push_name", "save", "returned", "raised"} =>
          /\ push_calls # <<>> /\ push_calls[1] = "check"
          /\ IsPrefix(push_calls, expected)
    /\ push_pc = "push" => push_calls = <<"check">>
    /\ push_pc \in {"save", "returned"} => push_calls = expected

\* Both branches were taken to their end: run 1 pushed by name, run 2
\* updated in place.
C21_Witness ==
    /\ run_no = 2 /\ push_pc = "returned"
    /\ prev_run.pushed /\ prev_run.saved
    /\ ReportsBothIds /\ push_calls = CallsById
    /\ ~Called(veza_api, "create_provider")

\* The provider of the full name that Veza holds has the ID the run before
\* stored.
StillTheSameProvider ==
    /\ prev_run.provider_id # None
    /\ \E p \in veza_providers :
          p.name = full_provider_name /\ p.id = prev_run.provider_id[1]

\* The second of two runs, whose first pushed and saved, past its preflight.
SecondRunAfterGoodFirst ==
    /\ run_no = 2 /\ push_pc \in {"push", "push_name", "save", "returned", "raised"}
    /\ prev_run.pushed /\ prev_run.saved
    /\ StillTheSameProvider

\* C22 as stated: after a run that pushed and saved, and with the provider
\* still in Veza under the same ID, the next run's preflight reports
\* override_provider with the stored ID and the run creates no provider.
C22_RepushIsOwn ==
    SecondRunAfterGoodFirst =>
        /\ preflight.override_provider
        /\ preflight.existing_provider_id = prev_run.provider_id
        /\ ~Called(veza_api, "create_provider")

\* C22, amended: as above when the preflight lookup of the provider
\* succeeds; when it raises, preflight reports nothing (no override, no
\* conflict); in both cases the second run creates no provider.
C22_Repush ==
    SecondRunAfterGoodFirst =>
        /\ \/ /\ preflight.override_provider
              /\ preflight.existing_provider_id = prev_run.provider_id
           \/ preflight = PreflightResult
        /\ ~preflight.has_conflicts
        /\ ~Called(veza_api, "create_provider")

\* The second run recognised the provider of the first and updated it in
\* place.
C22_Witness ==
    /\ SecondRunAfterGoodFirst /\ push_pc = "returned"
    /\ preflight.override_provider
    /\ preflight.existing_provider_id = prev_run.provider_id
    /\ push_calls = CallsById

\* The registry file records the ID for the name (the last entry of a name
\* counts).
RegistryRecords(name, id) ==
    /\ registry_file.state = "ok"
    /\ \E k \in 1..Len(registry_file.providers) :
          /\ registry_file.providers[k] = [name |-> name, id |-> id]
          /\ \A j \in (k+1)..Len(registry_file.providers) :
                registry_file.providers[j].name # name

\* Veza holds a provider of the full name that the registry does not record.
UnrecordedProvider ==
    \E p \in veza_providers :
        p.name = full_provider_name /\ ~RegistryRecords(full_provider_name, p.id)

\* What a run that met a conflict does: no override, proceed, one push by
\* name into the provider that was there, no provider created.
ConflictPushesByName ==
    preflight.has_conflicts =>
        /\ ~preflight.override_provider /\ preflight.proceed
        /\ Len(preflight.conflicts) = 1
        /\ IsPrefix(push_calls, CallsByName)
        /\ ~Called(veza_api, "create_provider")
        /\ ~Called(veza_api, "datasource_push")
        /\ push_pc = "returned" =>
              /\ push_calls = CallsByName
              /\ Count(veza_api, "push_application") = 1
              /\ \E p \in veza_providers :
                    /\ p.name = full_provider_name
                    /\ p.id = preflight.conflicts[1].existing_id

-----------------------------------------------------------------------------
(* Properties of the connector process                                     *)

AllSteps == <<1, 2, 3, 4, 5, 6, 7>>
Exited == main_pc = "exited"

CloudConnector == cfg.connector = "cloud-graphql"
DryRunMode == CloudConnector /\ dry_run = Some(TRUE)
PushMode == CloudConnector /\ dry_run = Some(FALSE)
NoVezaTraffic ==
    /\ veza_api = <<>> /\ push_calls = <<>> /\ push_pc = "idle"
    /\ ~registry_saved
ModeIsSet == CloudConnector /\ main_pc # "init" => DryRunMode \/ PushMode
ModeStays == dry_run # None => dry_run' = dry_run
DryRunWritesNothing ==
    DryRunMode =>
        /\ registry_file' = registry_file
        /\ veza_providers' = veza_providers /\ veza_next_id' = veza_next_id

\* C24: a run is in exactly one of the modes dry-run and push, the mode
\* set when the process starts and kept to its end; in dry-run mode no
\* call goes to Veza (no provider lookup, no provider creation, no push)
\* and the provider-ID registry file is not written.
C24_DryRun ==
    /\ [](ModeIsSet /\ (DryRunMode => NoVezaTraffic))
    /\ [][ModeStays /\ DryRunWritesNothing]_vars

\* A dry run asked for on the command line, with DRY_RUN=false in the
\* environment, has completed its seven steps and ended with 0.
C24_Witness ==
    /\ DryRunMode /\ cfg.args_dry_run /\ ~cfg.env_DRY_RUN
    /\ Exited /\ exit_code = Some(0) /\ steps_done = AllSteps
    /\ current_dir # None
    /\ NoVezaTraffic

OnPremConnector == cfg.connector = "on-prem-graphql"
MagentoCredentials ==
    /\ cfg.store_url # "" /\ cfg.username # "" /\ cfg.password # ""
    /\ cfg.ce_mode => (cfg.admin_username # "" /\ cfg.admin_password # "")

\* C25: validate_config of the on-prem GraphQL connector returns False
\* whenever DRY_RUN is false and VEZA_URL or VEZA_API_KEY is empty, False
\* whenever the store URL, the username or the password is empty, and True
\* in dry-run mode with valid Magento credentials even when both Veza
\* values are empty.
C25_ValidateConfig ==
    OnPremConnector /\ config_valid # None =>
        /\ ~cfg.env_DRY_RUN /\ (cfg.env_VEZA_URL = "" \/ cfg.env_VEZA_API_KEY = "") =>
              config_valid = Some(FALSE)
        /\ cfg.store_url = "" \/ cfg.username = "" \/ cfg.password = "" =>
              config_valid = Some(FALSE)
        /\ cfg.env_DRY_RUN /\ MagentoCredentials => config_valid = Some(TRUE)

Deleted == listing_before \ base_dir
OlderThanRetention(e) ==
    /\ strptime(e.name) # None
    /\ earlier_than(strptime(e.name)[1], clock, cfg.retention_days)
MayBeDeleted(e) == e.is_dir /\ pattern_match(e.name) /\ OlderThanRetention(e)
CleanupIsDue == main_pc \in {"init", "validate", "cleanup"}
DeletesOnlyInCleanup ==
    (listing_before \ base_dir') # (listing_before \ base_dir) =>
        main_pc = "cleanup" /\ current_dir = None /\ steps_done = <<>>

\* C30: the retention cleanup runs once, when the process starts and before
\* the output folder of the run is created; it deletes an entry of the
\* output base only if the entry is a directory whose name matches
\* YYYYMMDD_HHMM_* and whose timestamp is strictly older than now minus
\* retention_days; with retention_days <= 0 nothing is deleted, and files
\* (the provider-ID registry among them) and directories with other names
\* are never deleted.
C30_Retention ==
    /\ [](/\ \A e \in Deleted : MayBeDeleted(e)
          /\ cfg.retention_days <= 0 => Deleted = {}
          /\ CleanupIsDue => Deleted = {} /\ current_dir = None
          /\ main_pc = "cleanup" =>
                [name |-> Txt_registry, is_dir |-> FALSE]
                    \notin to_remove(listdir(base_dir, registry_file), clock,
                                     cfg.retention_days))
    /\ [][DeletesOnlyInCleanup]_vars

\* The cleanup has removed the folder of 1 January and kept the one written
\* a minute before the run; the run then created its own folder.
C30_Witness ==
    /\ cfg.retention_days = 30 /\ current_dir # None
    /\ Deleted = {[name |-> Dir_old, is_dir |-> TRUE]}
    /\ [name |-> Dir_recent, is_dir |-> TRUE] \in base_dir


-----------------------------------------------------------------------------
(* C27: role -> permission links from the REST role data                   *)

RelationshipsBuilt ==
    \/ orc_pc = "save"
    \/ orc_pc = "returned" /\ results.error \in {None, Some("save")}
FetchedRoles == IF orc_rest_roles = None THEN <<>> ELSE orc_rest_roles[1]
\* Entry j of fetched role i allows the catalogued resource P to that role.
AllowsKnown(i, j, P) ==
    /\ FetchedRoles[i].permissions[j].resource_id = P
    /\ FetchedRoles[i].permissions[j].permission = "allow"
    /\ P \in MAGENTO_ACL_PERMISSIONS
EntriesOf(role) ==
    {p \in (1..Len(FetchedRoles)) \X (1..2) :
        /\ p[2] <= Len(FetchedRoles[p[1]].permissions)
        /\ <<orc_company_id, FetchedRoles[p[1]].id>> = role}

\* C27: a role is linked to permission P only if the REST data of that role
\* holds an entry with resource_id P and permission "allow" and P is one of
\* the 34 resources of the ACL catalog, so that a "deny" entry and an
\* unknown resource ID never give a link; and an add_permissions that
\* raises loses its own link only: every other allowed, catalogued entry of
\* every role of the application is linked.
C27_RolePermissions ==
    /\ Cardinality(MAGENTO_ACL_PERMISSIONS) = 34
    /\ \A l \in role_permissions :
          \E p \in EntriesOf(l[1]) : AllowsKnown(p[1], p[2], l[2])
    /\ RelationshipsBuilt =>
          \A role \in AppLocalRoles : \A p \in EntriesOf(role) \ add_failed :
              \A P \in MAGENTO_ACL_PERMISSIONS :
                  AllowsKnown(p[1], p[2], P) => <<role, P>> \in role_permissions

\* The first add_permissions of role 1 raised, the second one of the same
\* role and the one of role 2, behind an unknown resource, gave their links;
\* the run returned with success.
C27_Witness ==
    /\ orc_pc = "returned" /\ results.success
    /\ Len(FetchedRoles) = 2
    /\ add_failed = {<<1, 1>>}
    /\ role_permissions = {<<<<"1", "1">>, "Magento_Sales::place_order">>,
                           <<<<"1", "2">>, "Magento_Company::index">>}

-----------------------------------------------------------------------------
(* C29: flattening the REST hierarchy tree                                 *)

\* The nodes of a tree, each with its subtree.
RECURSIVE TreeNodes(_), ForestNodes(_)
TreeNodes(node) == IF node = <<>> THEN {} ELSE {node} \cup ForestNodes(node.children)
ForestNodes(cs) ==
    IF cs = <<>> THEN {} ELSE TreeNodes(Head(cs)) \cup ForestNodes(Tail(cs))
\* _flatten_hierarchy has just returned (flat_nodes is not assigned again).
Flattened == rest_pc = "flat"
Lowered(t) ==
    CASE t = "CUSTOMER" -> "customer" [] t = "TEAM" -> "team"
      [] t = "COMPANY" -> "company" [] OTHER -> t
\* The flat node that stands for tree node n.
StandsFor(f, n) ==
    /\ f.structure_id = n.structure_id /\ f.entity_id = n.entity_id
    /\ f.structure_parent_id = n.structure_parent_id
    /\ f.entity_type = Lowered(n.entity_type)
PosOf(n) == CHOOSE i \in 1..Len(flat_nodes) : StandsFor(flat_nodes[i], n)

\* C29: flattening ends for every tree and gives one flat node for each
\* node of the tree, in pre-order: a parent before all of its descendants,
\* siblings (with their subtrees) in the order of the input, entity_type in
\* lower case; an empty or absent root gives the empty list, without error.
C29_Flatten ==
    Flattened =>
        LET nodes == TreeNodes(rest_hierarchy) IN
        /\ Len(flat_nodes) = Cardinality(nodes)
        /\ \A n \in nodes :
              Cardinality({i \in 1..Len(flat_nodes) : StandsFor(flat_nodes[i], n)}) = 1
        /\ \A n \in nodes : \A below \in TreeNodes(n) \ {n} : PosOf(n) < PosOf(below)
        /\ \A n \in nodes : \A a, b \in 1..Len(n.children) :
              a < b => \A first \in TreeNodes(n.children[a]) :
                          PosOf(first) < PosOf(n.children[b])
        /\ rest_hierarchy = <<>> => flat_nodes = <<>>

\* A chain of three nodes was flattened root first, the type CUSTOMER of
\* its second node in lower case.
C29_Witness ==
    /\ Flattened /\ Len(flat_nodes) = 3
    /\ Len(rest_hierarchy.children) = 1
    /\ rest_hierarchy.children[1].entity_type = "CUSTOMER"
    /\ flat_nodes[2].entity_type = "customer"
    /\ flat_nodes[3].structure_parent_id = flat_nodes[2].structure_id


-----------------------------------------------------------------------------
(* C28: the bearer token of the requests of CloudRESTClient                *)

InsideCacheWindow(request) == request.at < request.expires_at - 60

\* C28: over any sequence of API calls and clock advances, every request
\* is sent with a bearer token that is inside its cache window when it is
\* sent (the time is earlier than the token's expiry minus 60 seconds):
\* once the window has passed, _ensure_auth gets a fresh token from the
\* ImsAuthClient before the next request.
C28_TokenInsideWindow ==
    sent # <<>> => InsideCacheWindow(sent)

=============================================================================
